---------------------------- MODULE Spec2Model ----------------------------
(***************************************************************************)
(* A model of the DEX decoder of the smali crate (src/src/dex): the byte   *)
(* reader, the parse framework, the opcode table and its reverse map, the  *)
(* bytecode decoder, the CodeItem decoder, the MUTF-8 decoder and the file *)
(* assembler.                                                              *)
(*                                                                         *)
(* The byte source is a finite sequence of bytes `buf` with a cursor `pos` *)
(* (position p is the byte buf[p+1]).  Every reader is an operator from    *)
(* (buf, pos) to a result record [st, val, pos]: st = "ok" with the value  *)
(* read, st = "err" with the kind of the error that `?` propagates, or     *)
(* st = "panic" when the code panics instead of returning.                 *)
(*                                                                         *)
(* Numbers: a cursor, a u8, a u16 and an i32 are integers.  A u32 read     *)
(* from the file is a pair of 16-bit limbs [hi, lo], because the values of *)
(* TLC are 32-bit signed integers and u32 arithmetic has to wrap at 2^32.  *)
(***************************************************************************)
EXTENDS Integers, Sequences, FiniteSets, TLC

VARIABLES
  build,   \* how the crate was compiled: [trace, overflow_checks]
  buf,     \* the byte source
  pos,     \* the cursor of the byte source
  ci,      \* CodeItem::parse in progress
  sp,      \* parse_string in progress
  wo,      \* the last with_offset / parse_with_offset / align call
  vm,      \* Opcode::gen_value_map in progress
  df,      \* DexFile::parse in progress
  rd       \* the call of one reader: its input and its result

vars == <<build, buf, pos, ci, sp, wo, vm, df, rd>>

---------------------------------------------------------------------------
(* Results of a reader.                                                    *)

Ok(v, p) == [st |-> "ok", val |-> v, pos |-> p]

Fail(kind, p) == [st |-> "err", val |-> kind, pos |-> p]

Panic(what, p) == [st |-> "panic", val |-> what, pos |-> p]

\* The `?` operator: the failure r leaves the function at once, a success is
\* handed to the rest K of the function.  The result r is evaluated once,
\* as the one element x of {r}.
Try(r, K(_)) == CHOOSE y \in {IF x.st # "ok" THEN x ELSE K(x) : x \in {r}} : TRUE

---------------------------------------------------------------------------
(* u32 values as two 16-bit limbs, with the arithmetic the decoder does on *)
(* them.  `ovf` tells that the exact result does not fit in 32 bits: a     *)
(* build with overflow checks panics there, a build without them wraps.    *)

Limb == 256 * 256

W32(hi, lo) == [hi |-> hi, lo |-> lo]

W32OfInt(n) == W32(n \div Limb, n % Limb)

\* u32 * 2
W32Double(w) ==
  LET lo2 == w.lo * 2
      hi2 == w.hi * 2 + lo2 \div Limb
  IN  [val |-> W32(hi2 % Limb, lo2 % Limb), ovf |-> hi2 >= Limb]

\* u32 + u32
W32Add(a, b) ==
  LET lo == a.lo + b.lo
      hi == a.hi + b.hi + lo \div Limb
  IN  [val |-> W32(hi % Limb, lo % Limb), ovf |-> hi >= Limb]

\* (u16 as u32) * u32
W32MulU16(k, w) ==
  LET kl == k % 256
      kh == k \div 256
      t0 == kl * w.lo
      t1 == kh * w.lo
      low == t0 + (t1 % 256) * 256
      u0 == kl * w.hi
      u1 == kh * w.hi
      high == low \div Limb + t1 \div 256 + u0 + (u1 % 256) * 256
  IN  [val |-> W32(high % Limb, low % Limb),
       ovf |-> high >= Limb \/ u1 \div 256 > 0]

\* a < b on u32
W32Less(a, b) == a.hi < b.hi \/ (a.hi = b.hi /\ a.lo < b.lo)

\* u32 % 2
W32Odd(w) == w.lo % 2 = 1

---------------------------------------------------------------------------
(* Byte reader (trait ReadThings over a Read + Seek source).               *)

Avail(b, p, n) == p + n <= Len(b)

ByteAt(b, p) == b[p + 1]

\* Where a read that hits the end of the source leaves the cursor.
EofPos(b, p) == IF p > Len(b) THEN p ELSE Len(b)

U8(b, p) ==
  IF Avail(b, p, 1) THEN Ok(ByteAt(b, p), p + 1) ELSE Fail("io", EofPos(b, p))

split_u8(b, p) ==
  Try(U8(b, p), LAMBDA val : Ok(<<val.val % 16, val.val \div 16>>, val.pos))

U16At(b, p) == ByteAt(b, p) + 256 * ByteAt(b, p + 1)

U16(b, p) ==
  IF Avail(b, p, 2) THEN Ok(U16At(b, p), p + 2) ELSE Fail("io", EofPos(b, p))

U32(b, p) ==
  IF Avail(b, p, 4)
  THEN Ok(W32(U16At(b, p + 2), U16At(b, p)), p + 4)
  ELSE Fail("io", EofPos(b, p))

I32At(b, p) ==
  LET hi == U16At(b, p + 2)
  IN  (IF hi >= 32768 THEN hi - Limb ELSE hi) * Limb + U16At(b, p)

I32(b, p) ==
  IF Avail(b, p, 4) THEN Ok(I32At(b, p), p + 4) ELSE Fail("io", EofPos(b, p))

\* A u64 is kept as its four 16-bit limbs, least significant first.
U64(b, p) ==
  IF Avail(b, p, 8)
  THEN Ok(<<U16At(b, p), U16At(b, p + 2), U16At(b, p + 4), U16At(b, p + 6)>>, p + 8)
  ELSE Fail("io", EofPos(b, p))

\* Parser::align
Align(p, alignment) ==
  LET align == p % alignment
  IN  IF align # 0 THEN p - align + alignment ELSE p

\* Parser::parse_list::<i32>(len) and ::<u8>(len): len consecutive items.
ParseListI32(b, p, len) ==
  IF Avail(b, p, 4 * len)
  THEN Ok([i \in 1..len |-> I32At(b, p + 4 * (i - 1))], p + 4 * len)
  ELSE Fail("io", EofPos(b, p))

ParseListU8(b, p, len) ==
  IF len.hi = 0 /\ Avail(b, p, len.lo)
  THEN Ok([i \in 1..len.lo |-> ByteAt(b, p + i - 1)], p + len.lo)
  ELSE Fail("io", EofPos(b, p))

---------------------------------------------------------------------------
(* Instruction formats (enum Format) with the attributes size and payload. *)

Formats ==
  { "Format10t", "Format10x", "Format11n", "Format11x", "Format12x",
    "Format20bc", "Format20t", "Format21c", "Format21ih", "Format21lh",
    "Format21s", "Format21t", "Format22b", "Format22c", "Format22cs",
    "Format22s", "Format22t", "Format22x", "Format23x", "Format30t",
    "Format31c", "Format31i", "Format31t", "Format32x", "Format35c",
    "Format35mi", "Format35ms", "Format3rc", "Format3rmi", "Format3rms",
    "Format45cc", "Format4rcc", "Format51l", "ArrayPayload",
    "PackedSwitchPayload", "SparseSwitchPayload", "UnresolvedOdexInstruction" }

\* Format::size()
FormatSize(f) ==
  CASE f \in {"Format10t", "Format10x", "Format11n", "Format11x", "Format12x"} -> 2
    [] f \in {"Format20bc", "Format20t", "Format21c", "Format21ih", "Format21lh",
              "Format21s", "Format21t", "Format22b", "Format22c", "Format22cs",
              "Format22s", "Format22t", "Format22x", "Format23x"} -> 4
    [] f \in {"Format30t", "Format31c", "Format31i", "Format31t", "Format32x",
              "Format35c", "Format35mi", "Format35ms", "Format3rc", "Format3rmi",
              "Format3rms"} -> 6
    [] f \in {"Format45cc", "Format4rcc"} -> 8
    [] f = "Format51l" -> 10
    [] OTHER -> -1

\* Format::payload()
FormatPayload(f) == f \in {"ArrayPayload", "PackedSwitchPayload", "SparseSwitchPayload"}

---------------------------------------------------------------------------
(* The opcode table (enum Opcode) in the order of Opcode::all(), which is  *)
(* the order of the enum: value(), format() and the ODEX_ONLY bit of       *)
(* flags().                                                                *)

AllOpcodes ==
  <<
    [name |-> "Nop", value |-> 0, format |-> "Format10x", odex |-> FALSE],
    [name |-> "Move", value |-> 1, format |-> "Format12x", odex |-> FALSE],
    [name |-> "MoveFrom16", value |-> 2, format |-> "Format22x", odex |-> FALSE],
    [name |-> "Move16", value |-> 3, format |-> "Format32x", odex |-> FALSE],
    [name |-> "MoveWide", value |-> 4, format |-> "Format12x", odex |-> FALSE],
    [name |-> "MoveWideFrom16", value |-> 5, format |-> "Format22x", odex |-> FALSE],
    [name |-> "MoveWide16", value |-> 6, format |-> "Format32x", odex |-> FALSE],
    [name |-> "MoveObject", value |-> 7, format |-> "Format12x", odex |-> FALSE],
    [name |-> "MoveObjectFrom16", value |-> 8, format |-> "Format22x", odex |-> FALSE],
    [name |-> "MoveObject16", value |-> 9, format |-> "Format32x", odex |-> FALSE],
    [name |-> "MoveResult", value |-> 10, format |-> "Format11x", odex |-> FALSE],
    [name |-> "MoveResultWide", value |-> 11, format |-> "Format11x", odex |-> FALSE],
    [name |-> "MoveResultObject", value |-> 12, format |-> "Format11x", odex |-> FALSE],
    [name |-> "MoveException", value |-> 13, format |-> "Format11x", odex |-> FALSE],
    [name |-> "ReturnVoid", value |-> 14, format |-> "Format10x", odex |-> FALSE],
    [name |-> "Return", value |-> 15, format |-> "Format11x", odex |-> FALSE],
    [name |-> "ReturnWide", value |-> 16, format |-> "Format11x", odex |-> FALSE],
    [name |-> "ReturnObject", value |-> 17, format |-> "Format11x", odex |-> FALSE],
    [name |-> "Const4", value |-> 18, format |-> "Format11n", odex |-> FALSE],
    [name |-> "Const16", value |-> 19, format |-> "Format21s", odex |-> FALSE],
    [name |-> "CONST", value |-> 20, format |-> "Format31i", odex |-> FALSE],
    [name |-> "ConstHigh16", value |-> 21, format |-> "Format21ih", odex |-> FALSE],
    [name |-> "ConstWide16", value |-> 22, format |-> "Format21s", odex |-> FALSE],
    [name |-> "ConstWide32", value |-> 23, format |-> "Format31i", odex |-> FALSE],
    [name |-> "ConstWide", value |-> 24, format |-> "Format51l", odex |-> FALSE],
    [name |-> "ConstWideHigh16", value |-> 25, format |-> "Format21lh", odex |-> FALSE],
    [name |-> "ConstString", value |-> 26, format |-> "Format21c", odex |-> FALSE],
    [name |-> "ConstStringJumbo", value |-> 27, format |-> "Format31c", odex |-> FALSE],
    [name |-> "ConstClass", value |-> 28, format |-> "Format21c", odex |-> FALSE],
    [name |-> "MonitorEnter", value |-> 29, format |-> "Format11x", odex |-> FALSE],
    [name |-> "MonitorExit", value |-> 30, format |-> "Format11x", odex |-> FALSE],
    [name |-> "CheckCast", value |-> 31, format |-> "Format21c", odex |-> FALSE],
    [name |-> "InstanceOf", value |-> 32, format |-> "Format22c", odex |-> FALSE],
    [name |-> "ArrayLength", value |-> 33, format |-> "Format12x", odex |-> FALSE],
    [name |-> "NewInstance", value |-> 34, format |-> "Format21c", odex |-> FALSE],
    [name |-> "NewArray", value |-> 35, format |-> "Format22c", odex |-> FALSE],
    [name |-> "FilledNewArray", value |-> 36, format |-> "Format35c", odex |-> FALSE],
    [name |-> "FilledNewArrayRange", value |-> 37, format |-> "Format3rc", odex |-> FALSE],
    [name |-> "FillArrayData", value |-> 38, format |-> "Format31t", odex |-> FALSE],
    [name |-> "THROW", value |-> 39, format |-> "Format11x", odex |-> FALSE],
    [name |-> "GOTO", value |-> 40, format |-> "Format10t", odex |-> FALSE],
    [name |-> "Goto16", value |-> 41, format |-> "Format20t", odex |-> FALSE],
    [name |-> "Goto32", value |-> 42, format |-> "Format30t", odex |-> FALSE],
    [name |-> "PackedSwitch", value |-> 43, format |-> "Format31t", odex |-> FALSE],
    [name |-> "SparseSwitch", value |-> 44, format |-> "Format31t", odex |-> FALSE],
    [name |-> "CmplFloat", value |-> 45, format |-> "Format23x", odex |-> FALSE],
    [name |-> "CmpgFloat", value |-> 46, format |-> "Format23x", odex |-> FALSE],
    [name |-> "CmplDouble", value |-> 47, format |-> "Format23x", odex |-> FALSE],
    [name |-> "CmpgDouble", value |-> 48, format |-> "Format23x", odex |-> FALSE],
    [name |-> "CmpLong", value |-> 49, format |-> "Format23x", odex |-> FALSE],
    [name |-> "IfEq", value |-> 50, format |-> "Format22t", odex |-> FALSE],
    [name |-> "IfNe", value |-> 51, format |-> "Format22t", odex |-> FALSE],
    [name |-> "IfLt", value |-> 52, format |-> "Format22t", odex |-> FALSE],
    [name |-> "IfGe", value |-> 53, format |-> "Format22t", odex |-> FALSE],
    [name |-> "IfGt", value |-> 54, format |-> "Format22t", odex |-> FALSE],
    [name |-> "IfLe", value |-> 55, format |-> "Format22t", odex |-> FALSE],
    [name |-> "IfEqz", value |-> 56, format |-> "Format21t", odex |-> FALSE],
    [name |-> "IfNez", value |-> 57, format |-> "Format21t", odex |-> FALSE],
    [name |-> "IfLtz", value |-> 58, format |-> "Format21t", odex |-> FALSE],
    [name |-> "IfGez", value |-> 59, format |-> "Format21t", odex |-> FALSE],
    [name |-> "IfGtz", value |-> 60, format |-> "Format21t", odex |-> FALSE],
    [name |-> "IfLez", value |-> 61, format |-> "Format21t", odex |-> FALSE],
    [name |-> "AGET", value |-> 68, format |-> "Format23x", odex |-> FALSE],
    [name |-> "AgetWide", value |-> 69, format |-> "Format23x", odex |-> FALSE],
    [name |-> "AgetObject", value |-> 70, format |-> "Format23x", odex |-> FALSE],
    [name |-> "AgetBoolean", value |-> 71, format |-> "Format23x", odex |-> FALSE],
    [name |-> "AgetByte", value |-> 72, format |-> "Format23x", odex |-> FALSE],
    [name |-> "AgetChar", value |-> 73, format |-> "Format23x", odex |-> FALSE],
    [name |-> "AgetShort", value |-> 74, format |-> "Format23x", odex |-> FALSE],
    [name |-> "APUT", value |-> 75, format |-> "Format23x", odex |-> FALSE],
    [name |-> "AputWide", value |-> 76, format |-> "Format23x", odex |-> FALSE],
    [name |-> "AputObject", value |-> 77, format |-> "Format23x", odex |-> FALSE],
    [name |-> "AputBoolean", value |-> 78, format |-> "Format23x", odex |-> FALSE],
    [name |-> "AputByte", value |-> 79, format |-> "Format23x", odex |-> FALSE],
    [name |-> "AputChar", value |-> 80, format |-> "Format23x", odex |-> FALSE],
    [name |-> "AputShort", value |-> 81, format |-> "Format23x", odex |-> FALSE],
    [name |-> "IGET", value |-> 82, format |-> "Format22c", odex |-> FALSE],
    [name |-> "IgetWide", value |-> 83, format |-> "Format22c", odex |-> FALSE],
    [name |-> "IgetObject", value |-> 84, format |-> "Format22c", odex |-> FALSE],
    [name |-> "IgetBoolean", value |-> 85, format |-> "Format22c", odex |-> FALSE],
    [name |-> "IgetByte", value |-> 86, format |-> "Format22c", odex |-> FALSE],
    [name |-> "IgetChar", value |-> 87, format |-> "Format22c", odex |-> FALSE],
    [name |-> "IgetShort", value |-> 88, format |-> "Format22c", odex |-> FALSE],
    [name |-> "IPUT", value |-> 89, format |-> "Format22c", odex |-> FALSE],
    [name |-> "IputWide", value |-> 90, format |-> "Format22c", odex |-> FALSE],
    [name |-> "IputObject", value |-> 91, format |-> "Format22c", odex |-> FALSE],
    [name |-> "IputBoolean", value |-> 92, format |-> "Format22c", odex |-> FALSE],
    [name |-> "IputByte", value |-> 93, format |-> "Format22c", odex |-> FALSE],
    [name |-> "IputChar", value |-> 94, format |-> "Format22c", odex |-> FALSE],
    [name |-> "IputShort", value |-> 95, format |-> "Format22c", odex |-> FALSE],
    [name |-> "SGET", value |-> 96, format |-> "Format21c", odex |-> FALSE],
    [name |-> "SgetWide", value |-> 97, format |-> "Format21c", odex |-> FALSE],
    [name |-> "SgetObject", value |-> 98, format |-> "Format21c", odex |-> FALSE],
    [name |-> "SgetBoolean", value |-> 99, format |-> "Format21c", odex |-> FALSE],
    [name |-> "SgetByte", value |-> 100, format |-> "Format21c", odex |-> FALSE],
    [name |-> "SgetChar", value |-> 101, format |-> "Format21c", odex |-> FALSE],
    [name |-> "SgetShort", value |-> 102, format |-> "Format21c", odex |-> FALSE],
    [name |-> "SPUT", value |-> 103, format |-> "Format21c", odex |-> FALSE],
    [name |-> "SputWide", value |-> 104, format |-> "Format21c", odex |-> FALSE],
    [name |-> "SputObject", value |-> 105, format |-> "Format21c", odex |-> FALSE],
    [name |-> "SputBoolean", value |-> 106, format |-> "Format21c", odex |-> FALSE],
    [name |-> "SputByte", value |-> 107, format |-> "Format21c", odex |-> FALSE],
    [name |-> "SputChar", value |-> 108, format |-> "Format21c", odex |-> FALSE],
    [name |-> "SputShort", value |-> 109, format |-> "Format21c", odex |-> FALSE],
    [name |-> "InvokeVirtual", value |-> 110, format |-> "Format35c", odex |-> FALSE],
    [name |-> "InvokeSuper", value |-> 111, format |-> "Format35c", odex |-> FALSE],
    [name |-> "InvokeDirect", value |-> 112, format |-> "Format35c", odex |-> FALSE],
    [name |-> "InvokeStatic", value |-> 113, format |-> "Format35c", odex |-> FALSE],
    [name |-> "InvokeInterface", value |-> 114, format |-> "Format35c", odex |-> FALSE],
    [name |-> "InvokeVirtualRange", value |-> 116, format |-> "Format3rc", odex |-> FALSE],
    [name |-> "InvokeSuperRange", value |-> 117, format |-> "Format3rc", odex |-> FALSE],
    [name |-> "InvokeDirectRange", value |-> 118, format |-> "Format3rc", odex |-> FALSE],
    [name |-> "InvokeStaticRange", value |-> 119, format |-> "Format3rc", odex |-> FALSE],
    [name |-> "InvokeInterfaceRange", value |-> 120, format |-> "Format3rc", odex |-> FALSE],
    [name |-> "NegInt", value |-> 123, format |-> "Format12x", odex |-> FALSE],
    [name |-> "NotInt", value |-> 124, format |-> "Format12x", odex |-> FALSE],
    [name |-> "NegLong", value |-> 125, format |-> "Format12x", odex |-> FALSE],
    [name |-> "NotLong", value |-> 126, format |-> "Format12x", odex |-> FALSE],
    [name |-> "NegFloat", value |-> 127, format |-> "Format12x", odex |-> FALSE],
    [name |-> "NegDouble", value |-> 128, format |-> "Format12x", odex |-> FALSE],
    [name |-> "IntToLong", value |-> 129, format |-> "Format12x", odex |-> FALSE],
    [name |-> "IntToFloat", value |-> 130, format |-> "Format12x", odex |-> FALSE],
    [name |-> "IntToDouble", value |-> 131, format |-> "Format12x", odex |-> FALSE],
    [name |-> "LongToInt", value |-> 132, format |-> "Format12x", odex |-> FALSE],
    [name |-> "LongToFloat", value |-> 133, format |-> "Format12x", odex |-> FALSE],
    [name |-> "LongToDouble", value |-> 134, format |-> "Format12x", odex |-> FALSE],
    [name |-> "FloatToInt", value |-> 135, format |-> "Format12x", odex |-> FALSE],
    [name |-> "FloatToLong", value |-> 136, format |-> "Format12x", odex |-> FALSE],
    [name |-> "FloatToDouble", value |-> 137, format |-> "Format12x", odex |-> FALSE],
    [name |-> "DoubleToInt", value |-> 138, format |-> "Format12x", odex |-> FALSE],
    [name |-> "DoubleToLong", value |-> 139, format |-> "Format12x", odex |-> FALSE],
    [name |-> "DoubleToFloat", value |-> 140, format |-> "Format12x", odex |-> FALSE],
    [name |-> "IntToByte", value |-> 141, format |-> "Format12x", odex |-> FALSE],
    [name |-> "IntToChar", value |-> 142, format |-> "Format12x", odex |-> FALSE],
    [name |-> "IntToShort", value |-> 143, format |-> "Format12x", odex |-> FALSE],
    [name |-> "AddInt", value |-> 144, format |-> "Format23x", odex |-> FALSE],
    [name |-> "SubInt", value |-> 145, format |-> "Format23x", odex |-> FALSE],
    [name |-> "MulInt", value |-> 146, format |-> "Format23x", odex |-> FALSE],
    [name |-> "DivInt", value |-> 147, format |-> "Format23x", odex |-> FALSE],
    [name |-> "RemInt", value |-> 148, format |-> "Format23x", odex |-> FALSE],
    [name |-> "AndInt", value |-> 149, format |-> "Format23x", odex |-> FALSE],
    [name |-> "OrInt", value |-> 150, format |-> "Format23x", odex |-> FALSE],
    [name |-> "XorInt", value |-> 151, format |-> "Format23x", odex |-> FALSE],
    [name |-> "ShlInt", value |-> 152, format |-> "Format23x", odex |-> FALSE],
    [name |-> "ShrInt", value |-> 153, format |-> "Format23x", odex |-> FALSE],
    [name |-> "UshrInt", value |-> 154, format |-> "Format23x", odex |-> FALSE],
    [name |-> "AddLong", value |-> 155, format |-> "Format23x", odex |-> FALSE],
    [name |-> "SubLong", value |-> 156, format |-> "Format23x", odex |-> FALSE],
    [name |-> "MulLong", value |-> 157, format |-> "Format23x", odex |-> FALSE],
    [name |-> "DivLong", value |-> 158, format |-> "Format23x", odex |-> FALSE],
    [name |-> "RemLong", value |-> 159, format |-> "Format23x", odex |-> FALSE],
    [name |-> "AndLong", value |-> 160, format |-> "Format23x", odex |-> FALSE],
    [name |-> "OrLong", value |-> 161, format |-> "Format23x", odex |-> FALSE],
    [name |-> "XorLong", value |-> 162, format |-> "Format23x", odex |-> FALSE],
    [name |-> "ShlLong", value |-> 163, format |-> "Format23x", odex |-> FALSE],
    [name |-> "ShrLong", value |-> 164, format |-> "Format23x", odex |-> FALSE],
    [name |-> "UshrLong", value |-> 165, format |-> "Format23x", odex |-> FALSE],
    [name |-> "AddFloat", value |-> 166, format |-> "Format23x", odex |-> FALSE],
    [name |-> "SubFloat", value |-> 167, format |-> "Format23x", odex |-> FALSE],
    [name |-> "MulFloat", value |-> 168, format |-> "Format23x", odex |-> FALSE],
    [name |-> "DivFloat", value |-> 169, format |-> "Format23x", odex |-> FALSE],
    [name |-> "RemFloat", value |-> 170, format |-> "Format23x", odex |-> FALSE],
    [name |-> "AddDouble", value |-> 171, format |-> "Format23x", odex |-> FALSE],
    [name |-> "SubDouble", value |-> 172, format |-> "Format23x", odex |-> FALSE],
    [name |-> "MulDouble", value |-> 173, format |-> "Format23x", odex |-> FALSE],
    [name |-> "DivDouble", value |-> 174, format |-> "Format23x", odex |-> FALSE],
    [name |-> "RemDouble", value |-> 175, format |-> "Format23x", odex |-> FALSE],
    [name |-> "AddInt2addr", value |-> 176, format |-> "Format12x", odex |-> FALSE],
    [name |-> "SubInt2addr", value |-> 177, format |-> "Format12x", odex |-> FALSE],
    [name |-> "MulInt2addr", value |-> 178, format |-> "Format12x", odex |-> FALSE],
    [name |-> "DivInt2addr", value |-> 179, format |-> "Format12x", odex |-> FALSE],
    [name |-> "RemInt2addr", value |-> 180, format |-> "Format12x", odex |-> FALSE],
    [name |-> "AndInt2addr", value |-> 181, format |-> "Format12x", odex |-> FALSE],
    [name |-> "OrInt2addr", value |-> 182, format |-> "Format12x", odex |-> FALSE],
    [name |-> "XorInt2addr", value |-> 183, format |-> "Format12x", odex |-> FALSE],
    [name |-> "ShlInt2addr", value |-> 184, format |-> "Format12x", odex |-> FALSE],
    [name |-> "ShrInt2addr", value |-> 185, format |-> "Format12x", odex |-> FALSE],
    [name |-> "UshrInt2addr", value |-> 186, format |-> "Format12x", odex |-> FALSE],
    [name |-> "AddLong2addr", value |-> 187, format |-> "Format12x", odex |-> FALSE],
    [name |-> "SubLong2addr", value |-> 188, format |-> "Format12x", odex |-> FALSE],
    [name |-> "MulLong2addr", value |-> 189, format |-> "Format12x", odex |-> FALSE],
    [name |-> "DivLong2addr", value |-> 190, format |-> "Format12x", odex |-> FALSE],
    [name |-> "RemLong2addr", value |-> 191, format |-> "Format12x", odex |-> FALSE],
    [name |-> "AndLong2addr", value |-> 192, format |-> "Format12x", odex |-> FALSE],
    [name |-> "OrLong2addr", value |-> 193, format |-> "Format12x", odex |-> FALSE],
    [name |-> "XorLong2addr", value |-> 194, format |-> "Format12x", odex |-> FALSE],
    [name |-> "ShlLong2addr", value |-> 195, format |-> "Format12x", odex |-> FALSE],
    [name |-> "ShrLong2addr", value |-> 196, format |-> "Format12x", odex |-> FALSE],
    [name |-> "UshrLong2addr", value |-> 197, format |-> "Format12x", odex |-> FALSE],
    [name |-> "AddFloat2addr", value |-> 198, format |-> "Format12x", odex |-> FALSE],
    [name |-> "SubFloat2addr", value |-> 199, format |-> "Format12x", odex |-> FALSE],
    [name |-> "MulFloat2addr", value |-> 200, format |-> "Format12x", odex |-> FALSE],
    [name |-> "DivFloat2addr", value |-> 201, format |-> "Format12x", odex |-> FALSE],
    [name |-> "RemFloat2addr", value |-> 202, format |-> "Format12x", odex |-> FALSE],
    [name |-> "AddDouble2addr", value |-> 203, format |-> "Format12x", odex |-> FALSE],
    [name |-> "SubDouble2addr", value |-> 204, format |-> "Format12x", odex |-> FALSE],
    [name |-> "MulDouble2addr", value |-> 205, format |-> "Format12x", odex |-> FALSE],
    [name |-> "DivDouble2addr", value |-> 206, format |-> "Format12x", odex |-> FALSE],
    [name |-> "RemDouble2addr", value |-> 207, format |-> "Format12x", odex |-> FALSE],
    [name |-> "AddIntLit16", value |-> 208, format |-> "Format22s", odex |-> FALSE],
    [name |-> "RsubInt", value |-> 209, format |-> "Format22s", odex |-> FALSE],
    [name |-> "MulIntLit16", value |-> 210, format |-> "Format22s", odex |-> FALSE],
    [name |-> "DivIntLit16", value |-> 211, format |-> "Format22s", odex |-> FALSE],
    [name |-> "RemIntLit16", value |-> 212, format |-> "Format22s", odex |-> FALSE],
    [name |-> "AndIntLit16", value |-> 213, format |-> "Format22s", odex |-> FALSE],
    [name |-> "OrIntLit16", value |-> 214, format |-> "Format22s", odex |-> FALSE],
    [name |-> "XorIntLit16", value |-> 215, format |-> "Format22s", odex |-> FALSE],
    [name |-> "AddIntLit8", value |-> 216, format |-> "Format22b", odex |-> FALSE],
    [name |-> "RsubIntLit8", value |-> 217, format |-> "Format22b", odex |-> FALSE],
    [name |-> "MulIntLit8", value |-> 218, format |-> "Format22b", odex |-> FALSE],
    [name |-> "DivIntLit8", value |-> 219, format |-> "Format22b", odex |-> FALSE],
    [name |-> "RemIntLit8", value |-> 220, format |-> "Format22b", odex |-> FALSE],
    [name |-> "AndIntLit8", value |-> 221, format |-> "Format22b", odex |-> FALSE],
    [name |-> "OrIntLit8", value |-> 222, format |-> "Format22b", odex |-> FALSE],
    [name |-> "XorIntLit8", value |-> 223, format |-> "Format22b", odex |-> FALSE],
    [name |-> "ShlIntLit8", value |-> 224, format |-> "Format22b", odex |-> FALSE],
    [name |-> "ShrIntLit8", value |-> 225, format |-> "Format22b", odex |-> FALSE],
    [name |-> "UshrIntLit8", value |-> 226, format |-> "Format22b", odex |-> FALSE],
    [name |-> "IgetVolatile", value |-> 227, format |-> "Format22c", odex |-> TRUE],
    [name |-> "IputVolatile", value |-> 228, format |-> "Format22c", odex |-> TRUE],
    [name |-> "SgetVolatile", value |-> 229, format |-> "Format21c", odex |-> TRUE],
    [name |-> "SputVolatile", value |-> 230, format |-> "Format21c", odex |-> TRUE],
    [name |-> "IgetObjectVolatile", value |-> 231, format |-> "Format22c", odex |-> TRUE],
    [name |-> "IgetWideVolatile", value |-> 232, format |-> "Format22c", odex |-> TRUE],
    [name |-> "IputWideVolatile", value |-> 233, format |-> "Format22c", odex |-> TRUE],
    [name |-> "SgetWideVolatile", value |-> 234, format |-> "Format21c", odex |-> TRUE],
    [name |-> "SputWideVolatile", value |-> 235, format |-> "Format21c", odex |-> TRUE],
    [name |-> "ThrowVerificationError", value |-> 237, format |-> "Format20bc", odex |-> TRUE],
    [name |-> "ExecuteInline", value |-> 238, format |-> "Format35mi", odex |-> TRUE],
    [name |-> "ExecuteInlineRange", value |-> 239, format |-> "Format3rmi", odex |-> TRUE],
    [name |-> "InvokeDirectEmpty", value |-> 240, format |-> "Format35c", odex |-> TRUE],
    [name |-> "InvokeObjectInitRange", value |-> 240, format |-> "Format3rc", odex |-> TRUE],
    [name |-> "ReturnVoidNoBarrier", value |-> 115, format |-> "Format10x", odex |-> TRUE],
    [name |-> "InvokeSuperQuick", value |-> 250, format |-> "Format35ms", odex |-> TRUE],
    [name |-> "InvokeSuperQuickRange", value |-> 251, format |-> "Format3rms", odex |-> TRUE],
    [name |-> "IputObjectVolatile", value |-> 252, format |-> "Format22c", odex |-> TRUE],
    [name |-> "SgetObjectVolatile", value |-> 253, format |-> "Format21c", odex |-> TRUE],
    [name |-> "SputObjectVolatile", value |-> 254, format |-> "Format21c", odex |-> TRUE],
    [name |-> "PackedSwitchPayload", value |-> 256, format |-> "PackedSwitchPayload", odex |-> FALSE],
    [name |-> "SparseSwitchPayload", value |-> 512, format |-> "SparseSwitchPayload", odex |-> FALSE],
    [name |-> "ArrayPayload", value |-> 768, format |-> "ArrayPayload", odex |-> FALSE],
    [name |-> "InvokePolymorphic", value |-> 250, format |-> "Format45cc", odex |-> FALSE],
    [name |-> "InvokePolymorphicRange", value |-> 251, format |-> "Format4rcc", odex |-> FALSE],
    [name |-> "InvokeCustom", value |-> 252, format |-> "Format35c", odex |-> FALSE],
    [name |-> "InvokeCustomRange", value |-> 253, format |-> "Format3rc", odex |-> FALSE],
    [name |-> "ConstMethodHandle", value |-> 254, format |-> "Format21c", odex |-> FALSE],
    [name |-> "ConstMethodType", value |-> 255, format |-> "Format21c", odex |-> FALSE]
  >>

OpcodeValues == {AllOpcodes[i].value : i \in 1..Len(AllOpcodes)}

\* HashMap::insert: the entry of a key that is already present is replaced.
MapInsert(map, opcode) == (opcode.value :> opcode) @@ map

EmptyMap == <<>>

\* Opcode::gen_value_map(): `for opcode in Self::all() { map.insert(opcode.value(),
\* opcode) }` leaves under each value the last opcode of all() that has it.  (The
\* loop itself, one insert at a time, is the action GenValueMapInsert below, which
\* ends with this map.)
LastWith(v) ==
  CHOOSE i \in 1..Len(AllOpcodes) :
    /\ AllOpcodes[i].value = v
    /\ \A j \in (i + 1)..Len(AllOpcodes) : AllOpcodes[j].value # v

GenValueMap == [v \in OpcodeValues |-> AllOpcodes[LastWith(v)]]

\* lazy_static VALUE_TO_OPCODE
VALUE_TO_OPCODE == GenValueMap

---------------------------------------------------------------------------
(* Bytecode decoder: <Instruction as Parse>::parse.                        *)

\* ReadOpcode without the seek back after two zero bytes
ReadOpcodeNoSeek(b, p) ==
  Try(U8(b, p), LAMBDA op_lo :
  IF op_lo.val # 0 THEN Ok(op_lo.val, op_lo.pos)
  ELSE Try(U8(b, op_lo.pos), LAMBDA op_hi : Ok(op_hi.val * 256, op_hi.pos)))

\* ReadOpcode without the shift of the second byte
ReadOpcodeNoShift(b, p) ==
  Try(U8(b, p), LAMBDA op_lo :
  IF op_lo.val # 0 THEN Ok(op_lo.val, op_lo.pos)
  ELSE Try(U8(b, op_lo.pos), LAMBDA op_hi :
       IF op_hi.val = 0 THEN Ok(0, op_hi.pos - 1)
       ELSE Ok(op_hi.val, op_hi.pos)))

\* ReadOpcode with a seek back of two bytes after two zero bytes
ReadOpcodeSeekTwo(b, p) ==
  Try(U8(b, p), LAMBDA op_lo :
  IF op_lo.val # 0 THEN Ok(op_lo.val, op_lo.pos)
  ELSE Try(U8(b, op_lo.pos), LAMBDA op_hi :
       IF op_hi.val * 256 = 0 THEN Ok(0, op_hi.pos - 2)
       ELSE Ok(op_hi.val * 256, op_hi.pos)))

\* The opcode value: the first byte, or for a first byte of zero the second
\* byte shifted left by 8; when that is zero too, seek(Current(-1)).
ReadOpcode(b, p) ==
  Try(U8(b, p), LAMBDA op_lo :
  IF op_lo.val # 0 THEN Ok(op_lo.val, op_lo.pos)
  ELSE Try(U8(b, op_lo.pos), LAMBDA op_hi :
       IF op_hi.val * 256 = 0 THEN Ok(0, op_hi.pos - 1)
       ELSE Ok(op_hi.val * 256, op_hi.pos)))

\* assert_unused_byte!: ensure! with the feature "trace", assert_eq! without.
AssertUnusedByte(b, p, bld) ==
  Try(U8(b, p), LAMBDA unused :
  IF unused.val = 0 THEN Ok(<<>>, unused.pos)
  ELSE IF bld.trace THEN Fail("unused byte not 0", unused.pos)
  ELSE Panic("unused byte not 0", unused.pos))

\* What the arm of a format reads after the opcode, in the order of the reads.
Recipe(f) ==
  CASE f = "Format10x" -> <<"unused">>
    [] f \in {"Format12x", "Format11n"} -> <<"split">>
    [] f \in {"Format11x", "Format10t"} -> <<"u8">>
    [] f = "Format20t" -> <<"unused", "u16">>
    [] f \in {"Format20bc", "Format22x", "Format21t", "Format21s", "Format21ih",
              "Format21lh", "Format21c"} -> <<"u8", "u16">>
    [] f \in {"Format23x", "Format22b"} -> <<"u8", "u8", "u8">>
    [] f \in {"Format22t", "Format22s", "Format22c", "Format22cs"} -> <<"split", "u16">>
    [] f = "Format30t" -> <<"unused", "u32">>
    [] f = "Format32x" -> <<"unused", "u16", "u16">>
    [] f \in {"Format31i", "Format31t", "Format31c"} -> <<"u8", "u32">>
    [] f \in {"Format35c", "Format35ms", "Format35mi"} -> <<"split", "u16", "split", "split">>
    [] f \in {"Format3rc", "Format3rms", "Format3rmi"} -> <<"u8", "u16", "u16">>
    [] f = "Format45cc" -> <<"split", "u16", "split", "split", "u16">>
    [] f = "Format4rcc" -> <<"u8", "u16", "u16", "u16">>
    [] f = "Format51l" -> <<"u8", "u64">>

\* The match of Instruction::parse without the arm of Format51l
HandledFormatsNo51l == Formats \ {"UnresolvedOdexInstruction", "Format51l"}

\* The formats that have an arm in the match of Instruction::parse.
HandledFormats == Formats \ {"UnresolvedOdexInstruction"}

\* The variant of Instruction an arm builds.
Variant(f) ==
  CASE f \in {"Format21ih", "Format21lh"} -> "Instruction21h"
    [] f = "Format10x" -> "Instruction10x"
    [] f = "Format12x" -> "Instruction12x"
    [] f = "Format11n" -> "Instruction11n"
    [] f = "Format11x" -> "Instruction11x"
    [] f = "Format10t" -> "Instruction10t"
    [] f = "Format20t" -> "Instruction20t"
    [] f = "Format20bc" -> "Instruction20bc"
    [] f = "Format22x" -> "Instruction22x"
    [] f = "Format21t" -> "Instruction21t"
    [] f = "Format21s" -> "Instruction21s"
    [] f = "Format21c" -> "Instruction21c"
    [] f = "Format23x" -> "Instruction23x"
    [] f = "Format22b" -> "Instruction22b"
    [] f = "Format22t" -> "Instruction22t"
    [] f = "Format22s" -> "Instruction22s"
    [] f = "Format22c" -> "Instruction22c"
    [] f = "Format22cs" -> "Instruction22cs"
    [] f = "Format30t" -> "Instruction30t"
    [] f = "Format32x" -> "Instruction32x"
    [] f = "Format31i" -> "Instruction31i"
    [] f = "Format31t" -> "Instruction31t"
    [] f = "Format31c" -> "Instruction31c"
    [] f = "Format35c" -> "Instruction35c"
    [] f = "Format35ms" -> "Instruction35ms"
    [] f = "Format35mi" -> "Instruction35mi"
    [] f = "Format3rc" -> "Instruction3rc"
    [] f = "Format3rms" -> "Instruction3rms"
    [] f = "Format3rmi" -> "Instruction3rmi"
    [] f = "Format45cc" -> "Instruction45cc"
    [] f = "Format4rcc" -> "Instruction4rcc"
    [] f = "Format51l" -> "Instruction51l"
    [] f = "PackedSwitchPayload" -> "PackedSwitchPayload"
    [] f = "SparseSwitchPayload" -> "SparseSwitchPayload"
    [] f = "ArrayPayload" -> "FillArrayDataPayload"

\* The operand tuple of a read that yields one operand.
One(r) == Try(r, LAMBDA v : Ok(<<v.val>>, v.pos))

\* One read of a recipe; the value is the tuple of operands it yields.
ReadField(kind, b, p, bld) ==
  CASE kind = "unused" -> AssertUnusedByte(b, p, bld)
    [] kind = "split" -> split_u8(b, p)
    [] kind = "u8" -> One(U8(b, p))
    [] kind = "u16" -> One(U16(b, p))
    [] kind = "u32" -> One(U32(b, p))
    [] kind = "u64" -> One(U64(b, p))

\* The reads of a recipe from its i-th on, each `?` returning at the first
\* failure; args are the operands read so far.
RECURSIVE ReadFields(_, _, _, _, _, _)
ReadFields(recipe, i, args, b, p, bld) ==
  IF i > Len(recipe) THEN Ok(args, p)
  ELSE Try(ReadField(recipe[i], b, p, bld), LAMBDA r :
       ReadFields(recipe, i + 1, args \o r.val, b, r.pos, bld))

\* An Instruction: its variant, its Opcode and the operands in the order of its tuple.
Insn(op, args) == [variant |-> Variant(op.format), op |-> op, args |-> args]

\* Format::PackedSwitchPayload arm
ReadPackedSwitchPayload(op, b, p) ==
  Try(U16(b, p), LAMBDA size :
  Try(I32(b, size.pos), LAMBDA first_key :
  Try(ParseListI32(b, first_key.pos, size.val), LAMBDA targets :
  Ok(Insn(op, <<size.val, first_key.val, targets.val>>), targets.pos))))

\* Format::SparseSwitchPayload arm
ReadSparseSwitchPayload(op, b, p) ==
  Try(U16(b, p), LAMBDA size :
  Try(ParseListI32(b, size.pos, size.val), LAMBDA keys :
  Try(ParseListI32(b, keys.pos, size.val), LAMBDA targets :
  Ok(Insn(op, <<size.val, keys.val, targets.val>>), targets.pos))))

\* `if (element_width as u32 * size) % 2 != 0 { parser.u8()?; }`
ReadArrayPadding(b, p, len) == IF W32Odd(len) THEN U8(b, p) ELSE Ok(0, p)

\* The data of an array payload, len = element_width as u32 * size
ReadArrayData(b, p, bld, len) ==
  IF len.ovf /\ bld.overflow_checks
  THEN Panic("attempt to multiply with overflow", p)
  ELSE Try(ParseListU8(b, p, len.val), LAMBDA data :
       Try(ReadArrayPadding(b, data.pos, len.val), LAMBDA padding :
       Ok(data.val, padding.pos)))

\* Format::ArrayPayload arm; element_width as u32 * size is a u32 product.
ReadArrayPayload(op, b, p, bld) ==
  Try(U16(b, p), LAMBDA element_width :
  Try(U32(b, element_width.pos), LAMBDA size :
  Try(ReadArrayData(b, size.pos, bld, W32MulU16(element_width.val, size.val)), LAMBDA data :
  Ok(Insn(op, <<element_width.val, size.val, data.val>>), data.pos))))

\* The arm of a format that is no payload
ReadFormat(op, b, p, bld) ==
  Try(ReadFields(Recipe(op.format), 1, <<>>, b, p, bld), LAMBDA r :
  Ok(Insn(op, r.val), r.pos))

\* The match on op.format()
ReadOperands(op, b, p, bld) ==
  CASE op.format = "PackedSwitchPayload" -> ReadPackedSwitchPayload(op, b, p)
    [] op.format = "SparseSwitchPayload" -> ReadSparseSwitchPayload(op, b, p)
    [] op.format = "ArrayPayload" -> ReadArrayPayload(op, b, p, bld)
    [] op.format \notin HandledFormats -> Fail("unknown format", p)
    [] OTHER -> ReadFormat(op, b, p, bld)

\* <Instruction as Parse>::parse
InstructionParse(b, p, bld) ==
  Try(ReadOpcode(b, p), LAMBDA value :
  IF value.val \notin DOMAIN VALUE_TO_OPCODE
  THEN Fail("unknown opcode", value.pos)
  ELSE ReadOperands(VALUE_TO_OPCODE[value.val], b, value.pos, bld))

---------------------------------------------------------------------------
(* LEB128 (ReadThings::uleb128 / sleb128 over leb128::read): the 7-bit     *)
(* groups are read least significant first while bit 7 is set; the tenth   *)
(* byte (shift 63) may only be 0x00 or 0x01 (unsigned) / 0x00 or 0x7f      *)
(* (signed), otherwise the rest of the number is skipped and the read      *)
(* fails; the 64-bit value is then converted with try_into.                *)

RECURSIVE SkipContinuation(_, _, _)
SkipContinuation(b, p, byte) ==
  IF byte < 128 THEN Fail("leb128 overflow", p)
  ELSE Try(U8(b, p), LAMBDA r : SkipContinuation(b, r.pos, r.val))

RECURSIVE LebGroups(_, _, _, _)
LebGroups(b, p, groups, last) ==
  Try(U8(b, p), LAMBDA r :
  IF Len(groups) = 9 /\ r.val \notin {0, last}
  THEN SkipContinuation(b, r.pos, r.val)
  ELSE IF r.val < 128 THEN Ok(Append(groups, r.val), r.pos)
  ELSE LebGroups(b, r.pos, Append(groups, r.val % 128), last))

\* The groups of a number extended to the ten groups of 64 bits; `fill`
\* stands for the groups beyond the last one read.
Extend(groups, fill) ==
  [i \in 1..10 |-> IF i <= Len(groups) THEN groups[i] ELSE fill]

\* u64 -> u32 of `.try_into()`
UnsignedToU32(g, p) ==
  IF g[5] >= 16 \/ \E i \in 6..10 : g[i] # 0
  THEN Fail("converting number", p)
  ELSE Ok(W32(g[3] \div 4 + g[4] * 32 + g[5] * 4096,
              g[1] + g[2] * 128 + (g[3] % 4) * 16384), p)

\* ReadThings::uleb128: Uleb128(u32)
Uleb128(b, p) ==
  Try(LebGroups(b, p, <<>>, 1), LAMBDA r : UnsignedToU32(Extend(r.val, 0), r.pos))

\* Bits 0..30 of a 64-bit number given by its groups
Low31(g) == g[1] + g[2] * 128 + g[3] * 16384 + g[4] * 2097152 + (g[5] % 8) * 268435456

\* i64 -> i32 of `.try_into()`; top is bit 63
SignedToI32(g, top, p) ==
  IF g[5] \div 8 = 0 /\ (\A i \in 6..9 : g[i] = 0) /\ top = 0
  THEN Ok(Low31(g), p)
  ELSE IF g[5] \div 8 = 15 /\ (\A i \in 6..9 : g[i] = 127) /\ top = 1
  THEN Ok((Low31(g) - 2147483647) - 1, p)
  ELSE Fail("converting number", p)

\* The sign extension of leb128::read::signed: when fewer than 64 bits were
\* read and bit 6 of the last byte is set, the bits above are ones.
SignExtended(groups, p) ==
  IF Len(groups) = 10
  THEN SignedToI32(groups, groups[10] % 2, p)
  ELSE IF groups[Len(groups)] >= 64
  THEN SignedToI32(Extend(groups, 127), 1, p)
  ELSE SignedToI32(Extend(groups, 0), 0, p)

\* ReadThings::sleb128: Sleb128(i32)
Sleb128(b, p) ==
  Try(LebGroups(b, p, <<>>, 127), LAMBDA r : SignExtended(r.val, r.pos))

---------------------------------------------------------------------------
(* The records that follow the instructions of a CodeItem.                 *)

\* TryItem: parse_struct_default!(TryItem { start_addr, insn_count, handler_off })
TryItemParse(b, p) ==
  Try(U32(b, p), LAMBDA start_addr :
  Try(U16(b, start_addr.pos), LAMBDA insn_count :
  Try(U16(b, insn_count.pos), LAMBDA handler_off :
  Ok([start_addr |-> start_addr.val, insn_count |-> insn_count.val,
      handler_off |-> handler_off.val], handler_off.pos))))

\* EncodedTypeAddrPair: parse_struct_default!(EncodedTypeAddrPair { type_idx, addr })
EncodedTypeAddrPairParse(b, p) ==
  Try(Uleb128(b, p), LAMBDA type_idx :
  Try(Uleb128(b, type_idx.pos), LAMBDA addr :
  Ok([type_idx |-> type_idx.val, addr |-> addr.val], addr.pos)))

\* Parser::parse_list::<TryItem>(len): `for _ in 0..len { res.push(self.parse()?) }`
\* with the items read so far in acc.
RECURSIVE ParseListTryItem(_, _, _, _)
ParseListTryItem(b, p, len, acc) ==
  IF ~W32Less(W32OfInt(Len(acc)), len) THEN Ok(acc, p)
  ELSE Try(TryItemParse(b, p), LAMBDA r :
       ParseListTryItem(b, r.pos, len, Append(acc, r.val)))

\* Parser::parse_list::<EncodedTypeAddrPair>(len)
RECURSIVE ParseListEncodedTypeAddrPair(_, _, _, _)
ParseListEncodedTypeAddrPair(b, p, len, acc) ==
  IF ~W32Less(W32OfInt(Len(acc)), len) THEN Ok(acc, p)
  ELSE Try(EncodedTypeAddrPairParse(b, p), LAMBDA r :
       ParseListEncodedTypeAddrPair(b, r.pos, len, Append(acc, r.val)))

\* i32::MIN
MinI32 == (0 - 2147483647) - 1

\* `size.abs() as u32`; the abs of i32::MIN wraps to i32::MIN
AbsAsU32(n) ==
  IF n = MinI32 THEN W32(32768, 0) ELSE W32OfInt(IF n < 0 THEN 0 - n ELSE n)

\* catch_all_addr read for a negative size only
CatchAllAddrNegative(b, p, size) ==
  IF size < 0
  THEN Try(Uleb128(b, p), LAMBDA addr : Ok(<<addr.val>>, addr.pos))
  ELSE Ok(<<>>, p)

\* `if !size.is_positive() { Some(parser.uleb128()?) } else { None }`
CatchAllAddr(b, p, size) ==
  IF ~(size > 0)
  THEN Try(Uleb128(b, p), LAMBDA addr : Ok(<<addr.val>>, addr.pos))
  ELSE Ok(<<>>, p)

\* <EncodedCatchHandler as Parse>::parse
EncodedCatchHandlerParse(b, p, bld) ==
  Try(Sleb128(b, p), LAMBDA size :
  IF size.val = MinI32 /\ bld.overflow_checks
  THEN Panic("attempt to negate with overflow", size.pos)
  ELSE Try(ParseListEncodedTypeAddrPair(b, size.pos, AbsAsU32(size.val), <<>>),
           LAMBDA handlers :
       Try(CatchAllAddr(b, handlers.pos, size.val), LAMBDA catch_all_addr :
       Ok([size |-> size.val, handlers |-> handlers.val,
           catch_all_addr |-> catch_all_addr.val], catch_all_addr.pos))))

\* Parser::parse_list::<EncodedCatchHandler>(len)
RECURSIVE ParseListEncodedCatchHandler(_, _, _, _, _)
ParseListEncodedCatchHandler(b, p, bld, len, acc) ==
  IF ~W32Less(W32OfInt(Len(acc)), len) THEN Ok(acc, p)
  ELSE Try(EncodedCatchHandlerParse(b, p, bld), LAMBDA r :
       ParseListEncodedCatchHandler(b, r.pos, bld, len, Append(acc, r.val)))

\* <EncodedCatchHandlerList as Parse>::parse
EncodedCatchHandlerListParse(b, p, bld) ==
  Try(Uleb128(b, p), LAMBDA size :
  Try(ParseListEncodedCatchHandler(b, size.pos, bld, size.val, <<>>), LAMBDA list :
  Ok([size |-> size.val, list |-> list.val], list.pos)))

\* The bytes read one by one up to the next multiple of 4 at the end of
\* <CodeItem as Parse>::parse.
RECURSIVE ReadToAlignment(_, _, _)
ReadToAlignment(b, p, count) ==
  IF count = 0 THEN Ok(<<>>, p)
  ELSE Try(U8(b, p), LAMBDA r : ReadToAlignment(b, r.pos, count - 1))

---------------------------------------------------------------------------
(* Bounds and inputs of the model.                                         *)

\* insns_size of the generated CodeItems ranges over 0..MaxInsnsSize
MaxInsnsSize == 6

\* tries_size of the generated CodeItems ranges over 0..MaxTriesSize
MaxTriesSize == 1

\* up to MaxLead bytes lie between the cursor and the CodeItem's 4-byte boundary
MaxLead == 1

\* up to MaxCut bytes are missing at the end of the byte source
MaxCut == 2

Byte == 0..255

Builds == [trace : BOOLEAN, overflow_checks : BOOLEAN]

LE16(n) == <<n % 256, n \div 256>>

LE32(w) == LE16(w.lo) \o LE16(w.hi)

\* What follows the first two bytes of the instruction stream.
FillOps ==
  << 5, 0, 33, 67, 14, 0, 18, 52, 0, 0, 19, 1, 52, 18, 14, 0,
     110, 32, 5, 0, 33, 0, 14, 0, 0, 0, 14, 0, 0, 0, 0, 0 >>

FillZero == [i \in 1..32 |-> 0]

FillSwitch ==
  << 1, 0, 2, 0, 0, 0, 5, 0, 0, 0, 14, 0, 0, 0, 0, 0,
     0, 0, 0, 0, 1, 127, 3, 0, 0, 0, 0, 0, 0, 0, 0, 0 >>

FillArray ==
  << 3, 0, 1, 0, 0, 0, 170, 187, 204, 221, 14, 0, 1, 0, 0, 0,
     2, 0, 0, 0, 1, 1, 3, 4, 0, 0, 0, 0, 0, 0, 0, 0 >>

\* An array payload whose element_width (2) times size (2^31) is 2^32
FillArrayWide ==
  << 2, 0, 0, 0, 0, 128, 14, 0, 0, 0, 0, 0, 0, 0, 0, 0,
     0, 0, 0, 0, 0, 0, 0, 0, 0, 0, 0, 0, 0, 0, 0, 0 >>

Fillers == {FillOps, FillZero, FillSwitch, FillArray}

\* First two bytes of the stream in the inputs that vary the CodeItem
\* around them: nop, the three payloads, an unused payload ident,
\* return-void with a zero and a non-zero filler byte, const/4, const/16,
\* const (31i), invoke-virtual (35c), const-wide (51l), an unassigned opcode.
FirstUnits ==
  { <<0, 0>>, <<0, 1>>, <<0, 2>>, <<0, 3>>, <<0, 4>>, <<14, 0>>, <<14, 1>>,
    <<18, 52>>, <<19, 1>>, <<20, 1>>, <<110, 52>>, <<24, 0>>, <<62, 0>> }

\* insns_size values whose doubling or whose end offset leaves 32 bits.
HugeInsnsSizes == {W32(32767, 65535), W32(32768, 0), W32(65535, 65535)}

\* A byte source holding one CodeItem: `lead` bytes before its 4-byte
\* boundary when lead > 0, the 16-byte header, the stream and what follows,
\* without the last `cut` bytes.
CodeItemBytes(lead, tries_size, insns_size, first, fill, cut) ==
  LET all == (IF lead > 0 THEN <<0, 0, 0, 0>> ELSE <<>>)
             \o LE16(3) \o LE16(1) \o LE16(2) \o LE16(tries_size)
             \o LE32(W32(0, 0)) \o LE32(insns_size) \o first \o fill
  IN  SubSeq(all, 1, Len(all) - cut)

---------------------------------------------------------------------------
(* <CodeItem as Parse>::parse as a state machine over (buf, pos).          *)
(* ci.pc: "start" before the call, "insns" in the instruction loop,        *)
(* "done" after Ok(CodeItem), "failed" after Err, "panicked" after a panic.*)
(* ci.ends[i] is the cursor after the i-th instruction, ci.last the last   *)
(* call of Instruction::parse: the cursor it started at and its result.    *)

CodeItemIdle == [pc |-> "idle"]

CodeItemStart ==
  [pc |-> "start", header |-> <<>>, bytes |-> W32(0, 0), start_offset |-> 0,
   insns |-> <<>>, ends |-> <<>>, last |-> <<>>, tail |-> <<>>, error |-> ""]

CodeItemFail(r) ==
  [ci EXCEPT !.pc = IF r.st = "panic" THEN "panicked" ELSE "failed", !.error = r.val]

\* The fixed header: align(4), four u16, the Ref<DebugInfoItem, u32>, insns_size.
CodeItemFixed(b, p) ==
  Try(U16(b, Align(p, 4)), LAMBDA registers_size :
  Try(U16(b, registers_size.pos), LAMBDA ins_size :
  Try(U16(b, ins_size.pos), LAMBDA outs_size :
  Try(U16(b, outs_size.pos), LAMBDA tries_size :
  Try(U32(b, tries_size.pos), LAMBDA debug_info_off :
  Try(U32(b, debug_info_off.pos), LAMBDA insns_size :
  Ok([registers_size |-> registers_size.val, ins_size |-> ins_size.val,
      outs_size |-> outs_size.val, tries_size |-> tries_size.val,
      debug_info_off |-> debug_info_off.val, insns_size |-> insns_size.val],
     insns_size.pos)))))))

\* `vec![0u8; (insns_size * 2) as usize]`, the read into it and the seek back
\* to start_offset: the state with which the loop is entered.
CodeItemEnter(h, p, bld, bytes) ==
  IF bytes.ovf /\ bld.overflow_checks
  THEN Panic("attempt to multiply with overflow", p)
  ELSE Ok([h EXCEPT !.pc = "insns", !.bytes = bytes.val, !.start_offset = p], p)

\* From the entry of parse to the first test of the loop.
CodeItemBegin(b, p, bld) ==
  Try(CodeItemFixed(b, p), LAMBDA h :
  CodeItemEnter([CodeItemStart EXCEPT !.header = h.val], h.pos, bld, W32Double(h.val.insns_size)))

CodeItemHeader ==
  /\ ci.pc = "start"
  /\ \E r \in {CodeItemBegin(buf, pos, build)} :
        /\ pos' = r.pos
        /\ ci' = IF r.st = "ok" THEN r.val ELSE CodeItemFail(r)
  /\ UNCHANGED <<build, buf, sp, wo, vm, df, rd>>

\* start_offset + insns_size * 2 of the loop test
CodeItemEnd == W32Add(W32OfInt(ci.start_offset), ci.bytes)

\* `while parser.get_offset() < start_offset + insns_size * 2`
CodeItemLoopTest == W32Less(W32OfInt(pos), CodeItemEnd.val)

\* The loop test in a build with overflow checks, when the sum leaves 32 bits.
CodeItemEndOverflow ==
  /\ ci.pc = "insns"
  /\ CodeItemEnd.ovf /\ build.overflow_checks
  /\ ci' = CodeItemFail(Panic("attempt to add with overflow", pos))
  /\ UNCHANGED <<build, buf, pos, sp, wo, vm, df, rd>>

\* One iteration of the loop: Instruction::parse, and on Err `return Err(e)`.
CodeItemInstruction ==
  /\ ci.pc = "insns"
  /\ ~(CodeItemEnd.ovf /\ build.overflow_checks)
  /\ CodeItemLoopTest
  /\ \E r \in {InstructionParse(buf, pos, build)} :
        /\ pos' = r.pos
        /\ ci' = IF r.st = "ok"
                 THEN [ci EXCEPT !.insns = Append(@, r.val), !.ends = Append(@, r.pos),
                                 !.last = <<[at |-> pos, res |-> r]>>]
                 ELSE [CodeItemFail(r) EXCEPT !.last = <<[at |-> pos, res |-> r]>>]
  /\ UNCHANGED <<build, buf, sp, wo, vm, df, rd>>

\* The padding read whenever tries_size != 0, whatever insns_size is
CodeItemPaddingAnySize(b, p, tries_size, insns_size) ==
  IF tries_size # 0
  THEN Try(U16(b, p), LAMBDA padding : Ok(<<padding.val>>, padding.pos))
  ELSE Ok(<<>>, p)

\* `if tries_size != 0 && insns_size % 2 != 0 { parser.u16()? }`
CodeItemPadding(b, p, tries_size, insns_size) ==
  IF tries_size # 0 /\ W32Odd(insns_size)
  THEN Try(U16(b, p), LAMBDA padding : Ok(<<padding.val>>, padding.pos))
  ELSE Ok(<<>>, p)

\* `if tries_size != 0 { parser.parse_list(tries_size as u32)? }`
CodeItemTries(b, p, tries_size) ==
  IF tries_size # 0
  THEN Try(ParseListTryItem(b, p, W32OfInt(tries_size), <<>>), LAMBDA tries :
       Ok(<<tries.val>>, tries.pos))
  ELSE Ok(<<>>, p)

\* `if tries_size != 0 { parser.parse()? }`
CodeItemHandlers(b, p, bld, tries_size) ==
  IF tries_size # 0
  THEN Try(EncodedCatchHandlerListParse(b, p, bld), LAMBDA handlers :
       Ok(<<handlers.val>>, handlers.pos))
  ELSE Ok(<<>>, p)

\* The bytes read up to the next multiple of 4
CodeItemAlignment(b, p) ==
  ReadToAlignment(b, p, IF p % 4 > 0 THEN 4 - (p % 4) ELSE 0)

\* What follows the loop: padding, tries and handlers when tries_size != 0,
\* then the alignment.
CodeItemRest(b, p, bld, tries_size, insns_size) ==
  Try(CodeItemPadding(b, p, tries_size, insns_size), LAMBDA padding :
  Try(CodeItemTries(b, padding.pos, tries_size), LAMBDA tries :
  Try(CodeItemHandlers(b, tries.pos, bld, tries_size), LAMBDA handlers :
  Try(CodeItemAlignment(b, handlers.pos), LAMBDA aligned :
  Ok([padding |-> padding.val, tries |-> tries.val, handlers |-> handlers.val,
      loop_end |-> p, tries_end |-> tries.pos, handlers_end |-> handlers.pos],
     aligned.pos)))))

\* The exit of the loop and the rest of parse, up to Ok(CodeItem { .. }).
CodeItemTail ==
  /\ ci.pc = "insns"
  /\ ~(CodeItemEnd.ovf /\ build.overflow_checks)
  /\ ~CodeItemLoopTest
  /\ \E r \in {CodeItemRest(buf, pos, build, ci.header.tries_size, ci.header.insns_size)} :
        /\ pos' = r.pos
        /\ ci' = IF r.st = "ok"
                 THEN [ci EXCEPT !.pc = "done", !.tail = <<r.val>>]
                 ELSE CodeItemFail(r)
  /\ UNCHANGED <<build, buf, sp, wo, vm, df, rd>>

\* The CodeItems given to the decoder: every first byte with two second
\* bytes, a few first code units with every shape of CodeItem around them,
\* and an array payload with a product of 2^32.
Init ==
  /\ \/ \E b0 \in Byte, b1 \in {0, 52}, fill \in Fillers, n \in 1..MaxInsnsSize :
          /\ buf = CodeItemBytes(0, 0, W32OfInt(n), <<b0, b1>>, fill, 0)
          /\ pos = 0
          /\ build \in {bld \in Builds : ~bld.overflow_checks}
     \/ \E lead \in 0..MaxLead, tries_size \in 0..MaxTriesSize, first \in FirstUnits,
           insns_size \in {W32OfInt(n) : n \in 0..MaxInsnsSize} \cup HugeInsnsSizes,
           fill \in Fillers, cut \in 0..MaxCut :
          /\ buf = CodeItemBytes(lead, tries_size, insns_size, first, fill, cut)
          /\ pos = lead
          /\ build \in Builds
     \/ \E n \in 1..MaxInsnsSize, cut \in 0..MaxCut :
          /\ buf = CodeItemBytes(0, 0, W32OfInt(n), <<0, 3>>, FillArrayWide, cut)
          /\ pos = 0
          /\ build \in Builds
  /\ ci = CodeItemStart
  /\ rd = [pc |-> "idle"]
  /\ sp = [pc |-> "idle"]
  /\ wo = [pc |-> "idle"]
  /\ vm = [pc |-> "idle"]
  /\ df = [pc |-> "idle"]

Next ==
  \/ CodeItemHeader
  \/ CodeItemEndOverflow
  \/ CodeItemInstruction
  \/ CodeItemTail

Spec == Init /\ [][Next]_vars

\* The CodeItems of the runs to the end: the first code units with every
\* insns_size, whole and at the 4-byte boundary.
InitRun ==
  /\ \E tries_size \in 0..MaxTriesSize, first \in FirstUnits,
        insns_size \in {W32OfInt(n) : n \in 0..MaxInsnsSize} \cup HugeInsnsSizes,
        fill \in Fillers \cup {FillArrayWide} :
       buf = CodeItemBytes(0, tries_size, insns_size, first, fill, 0)
  /\ pos = 0
  /\ build \in Builds
  /\ ci = CodeItemStart
  /\ rd = [pc |-> "idle"]
  /\ sp = [pc |-> "idle"]
  /\ wo = [pc |-> "idle"]
  /\ vm = [pc |-> "idle"]
  /\ df = [pc |-> "idle"]

\* The parse runs on its thread until it returns or panics: a step that
\* can be taken is taken.
SpecRun == InitRun /\ [][Next]_vars /\ WF_vars(Next)
---------------------------------------------------------------------------
(* Opcode::gen_value_map() and the lookups in VALUE_TO_OPCODE as a state   *)
(* machine: vm.i is the index in all() of the next opcode to insert.       *)

ValueMapStart == [pc |-> "insert", i |-> 1, map |-> EmptyMap, looked |-> <<>>]

InitMap ==
  /\ vm = ValueMapStart
  /\ build \in {bld \in Builds : bld.trace /\ ~bld.overflow_checks}
  /\ buf = <<>>
  /\ pos = 0
  /\ ci = CodeItemIdle
  /\ rd = [pc |-> "idle"]
  /\ sp = [pc |-> "idle"]
  /\ wo = [pc |-> "idle"]
  /\ df = [pc |-> "idle"]

\* One iteration of `for opcode in Self::all() { map.insert(opcode.value(), opcode); }`
GenValueMapInsert ==
  /\ vm.pc = "insert"
  /\ vm.i <= Len(AllOpcodes)
  /\ vm' = [vm EXCEPT !.map = MapInsert(@, AllOpcodes[vm.i]), !.i = @ + 1]
  /\ UNCHANGED <<build, buf, pos, ci, sp, wo, df, rd>>

\* The end of the loop: the map becomes the value of VALUE_TO_OPCODE.
GenValueMapReturn ==
  /\ vm.pc = "insert"
  /\ vm.i > Len(AllOpcodes)
  /\ vm' = [vm EXCEPT !.pc = "ready"]
  /\ UNCHANGED <<build, buf, pos, ci, sp, wo, df, rd>>

\* VALUE_TO_OPCODE.get(&opcode.value()) for an opcode of all()
OpcodeLookup ==
  /\ vm.pc = "ready"
  /\ \E k \in 1..Len(AllOpcodes) :
       vm' = [vm EXCEPT !.looked = <<[opcode |-> AllOpcodes[k],
                                      found |-> vm.map[AllOpcodes[k].value]]>>]
  /\ UNCHANGED <<build, buf, pos, ci, sp, wo, df, rd>>

NextMap ==
  \/ GenValueMapInsert
  \/ GenValueMapReturn
  \/ OpcodeLookup

SpecMap == InitMap /\ [][NextMap]_vars

---------------------------------------------------------------------------
(* parse_string: parse_utf8_bytes_utf16_len_string as a state machine.     *)
(* sp.n counts the code units pushed to chars; sp.bytes are the bytes      *)
(* that next_byte has pushed.                                              *)

\* len of the generated parse_string calls ranges over 0..MaxLen
MaxLen == 2

\* the exhaustively generated byte sources have up to MaxStrBytes bytes
MaxStrBytes == 3

\* The bytes of the generated sources: the ends of every class of lead and
\* continuation byte.
StrBytes ==
  {0, 65, 127, 128, 160, 191, 192, 193, 194, 223, 224, 225, 237, 239, 240, 255}

\* Longer sources: a surrogate pair, three forms in a row, a lone low
\* surrogate after a one-byte form.
StrSamples ==
  { <<237, 160, 129, 237, 176, 128>>, <<65, 194, 128, 224, 160, 128>>,
    <<65, 237, 176, 128>>, <<192, 128, 225, 128, 65>> }

RECURSIVE SeqsOver(_, _)
SeqsOver(S, n) ==
  IF n = 0 THEN {<<>>}
  ELSE LET shorter == SeqsOver(S, n - 1)
       IN  shorter \cup {Append(s, x) : s \in {t \in shorter : Len(t) = n - 1}, x \in S}

\* ParseError::bad_utf8(byte, at)
BadUtf8(byte, at, p) ==
  [st |-> "err", val |-> "bad_utf8", pos |-> p, byte |-> byte, at |-> at]

\* `(v & 0xc0) != 0x80`
NotContinuation(v) == v \div 64 # 2

\* The arm 0x00..=0x07 of the match on v0 >> 4
Mutf8One(v0, at, p) ==
  IF v0 = 0 THEN BadUtf8(v0, at, p) ELSE Ok([out |-> v0, at |-> at + 1], p)

\* Mutf8TwoValue without the test for an overlong form
Mutf8TwoValueLax(value, v1, at, p) == Ok([out |-> value, at |-> at + 2], p)

\* `((v0 & 0x1f) << 6) | (v1 & 0x3f)` and the test on it
Mutf8TwoValue(value, v1, at, p) ==
  IF value # 0 /\ value < 128 THEN BadUtf8(v1, at + 1, p)
  ELSE Ok([out |-> value, at |-> at + 2], p)

\* The arm 0x0c..=0x0d
Mutf8Two(b, p, v0, at) ==
  Try(U8(b, p), LAMBDA v1 :
  IF NotContinuation(v1.val) THEN BadUtf8(v1.val, at + 1, v1.pos)
  ELSE Mutf8TwoValue((v0 % 32) * 64 + (v1.val % 64), v1.val, at, v1.pos))

\* `((v0 & 0x0f) << 12) | ((v1 & 0x3f) << 6) | (v2 & 0x3f)` and the test on it
Mutf8ThreeValue(value, v2, at, p) ==
  IF value < 2048 THEN BadUtf8(v2, at + 2, p)
  ELSE Ok([out |-> value, at |-> at + 3], p)

\* The arm 0x0e; the test after the read of v2 is again on v1.
Mutf8Three(b, p, v0, at) ==
  Try(U8(b, p), LAMBDA v1 :
  IF NotContinuation(v1.val) THEN BadUtf8(v1.val, at + 1, v1.pos)
  ELSE Try(U8(b, v1.pos), LAMBDA v2 :
       IF NotContinuation(v1.val) THEN BadUtf8(v2.val, at + 2, v2.pos)
       ELSE Mutf8ThreeValue((v0 % 16) * 4096 + (v1.val % 64) * 64 + (v2.val % 64),
                            v2.val, at, v2.pos)))

\* `match v0 >> 4 { .. }`
Mutf8Match(b, p, v0, at) ==
  CASE v0 \div 16 \in 0..7 -> Mutf8One(v0, at, p)
    [] v0 \div 16 \in 12..13 -> Mutf8Two(b, p, v0, at)
    [] v0 \div 16 = 14 -> Mutf8Three(b, p, v0, at)
    [] OTHER -> BadUtf8(v0, at, p)

\* The body of the loop: one code unit
Mutf8Unit(b, p, at) == Try(U8(b, p), LAMBDA v0 : Mutf8Match(b, v0.pos, v0.val, at))

\* String::from_utf16_lossy: a high surrogate followed by a low one is one
\* scalar value, any other surrogate is U+FFFD.
RECURSIVE FromUtf16Lossy(_, _, _)
FromUtf16Lossy(chars, i, acc) ==
  IF i > Len(chars) THEN acc
  ELSE IF chars[i] \notin 55296..57343
  THEN FromUtf16Lossy(chars, i + 1, Append(acc, chars[i]))
  ELSE IF chars[i] < 56320 /\ i < Len(chars) /\ chars[i + 1] \in 56320..57343
  THEN FromUtf16Lossy(chars, i + 2,
                      Append(acc, 65536 + (chars[i] - 55296) * 1024 + (chars[i + 1] - 56320)))
  ELSE FromUtf16Lossy(chars, i + 1, Append(acc, 65533))

ParseStringStart(len) ==
  [pc |-> "loop", len |-> len, n |-> 0, at |-> 0, bytes |-> <<>>, chars |-> <<>>,
   last |-> <<>>, error |-> <<>>, string |-> <<>>]

InitStr ==
  /\ buf \in SeqsOver(StrBytes, MaxStrBytes) \cup StrSamples
  /\ pos = 0
  /\ \E len \in 0..MaxLen : sp = ParseStringStart(len)
  /\ build \in {bld \in Builds : bld.trace /\ ~bld.overflow_checks}
  /\ ci = CodeItemIdle
  /\ rd = [pc |-> "idle"]
  /\ wo = [pc |-> "idle"]
  /\ vm = [pc |-> "idle"]
  /\ df = [pc |-> "idle"]

\* One iteration of `for _ in 0..len`
ParseStringUnit ==
  /\ sp.pc = "loop"
  /\ sp.n < sp.len
  /\ \E r \in {Mutf8Unit(buf, pos, sp.at)} :
       /\ pos' = r.pos
       /\ sp' = IF r.st = "ok"
                THEN [sp EXCEPT !.n = @ + 1, !.at = r.val.at,
                                !.bytes = @ \o SubSeq(buf, pos + 1, r.pos),
                                !.chars = Append(@, r.val.out),
                                !.last = <<[start |-> pos, res |-> r]>>]
                ELSE [sp EXCEPT !.pc = "failed", !.error = <<r>>,
                                !.bytes = @ \o SubSeq(buf, pos + 1, r.pos),
                                !.last = <<[start |-> pos, res |-> r]>>]
  /\ UNCHANGED <<build, buf, ci, wo, vm, df, rd>>

\* `Ok((bytes, String::from_utf16_lossy(&chars).to_string()))`
ParseStringReturn ==
  /\ sp.pc = "loop"
  /\ sp.n = sp.len
  /\ sp' = [sp EXCEPT !.pc = "done", !.string = FromUtf16Lossy(sp.chars, 1, <<>>)]
  /\ UNCHANGED <<build, buf, pos, ci, wo, vm, df, rd>>

NextStr ==
  \/ ParseStringUnit
  \/ ParseStringReturn

SpecStr == InitStr /\ [][NextStr]_vars

---------------------------------------------------------------------------
(* Parser::offset, align, with_offset and parse_with_offset as calls on a  *)
(* byte source that has a header and a few bytes of data.                  *)

\* The size of the header of a DEX file, below which no offset may point.
HeaderSize == 112

\* the generated byte source has MaxData bytes after its header
MaxData == 6

OffsetBytes == [i \in 1..(HeaderSize + MaxData) |-> (i * 37) % 256]

\* The offsets of the generated calls: around 0, around the end of the
\* header, and up to one byte past the end of the source.
Offsets == {0, 1, 2, HeaderSize - 1} \cup (HeaderSize..(HeaderSize + MaxData + 1))

\* The types T of the generated parse_with_offset::<T> calls, and the
\* closures |p| p.u8(), |p| p.u16(), |p| p.u32() of the with_offset calls.
Kinds == {"u8", "u16", "u32"}

ReadAs(kind, b, p) ==
  CASE kind = "u8" -> U8(b, p)
    [] kind = "u16" -> U16(b, p)
    [] kind = "u32" -> U32(b, p)

\* Parser::with_offset(offset, f): None is <<>>, Some(res) is <<res>>.
WithOffset(b, p, offset, f) ==
  IF offset = 0 THEN Ok(<<>>, p)
  ELSE IF offset < HeaderSize THEN Fail("offset out of bounds", p)
  ELSE Try(ReadAs(f, b, offset), LAMBDA res : Ok(<<res.val>>, p))

\* parse_with_offset without the seek back to old_offset
ParseWithOffsetNoRestore(b, p, offset, T) ==
  IF offset = 0 THEN Ok(<<>>, p)
  ELSE IF offset < HeaderSize THEN Fail("offset out of bounds", p)
  ELSE Try(ReadAs(T, b, offset), LAMBDA res : Ok(<<res.val>>, res.pos))

\* Parser::parse_with_offset::<T>(offset)
ParseWithOffset(b, p, offset, T) ==
  IF offset = 0 THEN Ok(<<>>, p)
  ELSE IF offset < HeaderSize THEN Fail("offset out of bounds", p)
  ELSE Try(ReadAs(T, b, offset), LAMBDA res : Ok(<<res.val>>, p))

\* the generated parse_list_with_offset calls ask for up to MaxListSize items
MaxListSize == 2

\* Parser::parse_list::<T>(len) for the types above
RECURSIVE ParseListAs(_, _, _, _, _)
ParseListAs(T, b, p, len, acc) ==
  IF ~(Len(acc) < len) THEN Ok(acc, p)
  ELSE Try(ReadAs(T, b, p), LAMBDA r : ParseListAs(T, b, r.pos, len, Append(acc, r.val)))

\* Parser::parse_list_with_offset::<T>(size, offset): no test of the offset
ParseListWithOffset(b, p, size, offset, T) ==
  Try(ParseListAs(T, b, offset, size, <<>>), LAMBDA res : Ok(res.val, p))

InitOff ==
  /\ buf = OffsetBytes
  /\ pos = 0
  /\ wo = [pc |-> "ready", last |-> <<>>]
  /\ build \in {bld \in Builds : bld.trace /\ ~bld.overflow_checks}
  /\ ci = CodeItemIdle
  /\ rd = [pc |-> "idle"]
  /\ sp = [pc |-> "idle"]
  /\ vm = [pc |-> "idle"]
  /\ df = [pc |-> "idle"]

Called(fn, offset, kind, r) ==
  [wo EXCEPT !.last = <<[fn |-> fn, offset |-> offset, kind |-> kind, at |-> pos, res |-> r]>>]

\* parser.offset(offset)
CallOffset ==
  /\ wo.pc = "ready"
  /\ \E offset \in Offsets :
       /\ pos' = offset
       /\ wo' = Called("offset", offset, "", Ok(<<>>, offset))
  /\ UNCHANGED <<build, buf, ci, sp, vm, df, rd>>

\* parser.align(4)
CallAlign ==
  /\ wo.pc = "ready"
  /\ pos' = Align(pos, 4)
  /\ wo' = Called("align", 0, "", Ok(<<>>, Align(pos, 4)))
  /\ UNCHANGED <<build, buf, ci, sp, vm, df, rd>>

\* parser.with_offset(offset, f)
CallWithOffset ==
  /\ wo.pc = "ready"
  /\ \E offset \in Offsets, f \in Kinds :
       \E r \in {WithOffset(buf, pos, offset, f)} :
         /\ pos' = r.pos
         /\ wo' = Called("with_offset", offset, f, r)
  /\ UNCHANGED <<build, buf, ci, sp, vm, df, rd>>

\* parser.parse_with_offset::<T>(offset)
CallParseWithOffset ==
  /\ wo.pc = "ready"
  /\ \E offset \in Offsets, T \in Kinds :
       \E r \in {ParseWithOffset(buf, pos, offset, T)} :
         /\ pos' = r.pos
         /\ wo' = Called("parse_with_offset", offset, T, r)
  /\ UNCHANGED <<build, buf, ci, sp, vm, df, rd>>

\* parser.parse_list_with_offset::<T>(size, offset)
CallParseListWithOffset ==
  /\ wo.pc = "ready"
  /\ \E offset \in Offsets, T \in Kinds, size \in 0..MaxListSize :
       \E r \in {ParseListWithOffset(buf, pos, size, offset, T)} :
         /\ pos' = r.pos
         /\ wo' = Called("parse_list_with_offset", offset, T, r)
  /\ UNCHANGED <<build, buf, ci, sp, vm, df, rd>>

NextOff ==
  \/ CallOffset
  \/ CallAlign
  \/ CallWithOffset
  \/ CallParseWithOffset
  \/ CallParseListWithOffset

SpecOff == InitOff /\ [][NextOff]_vars

---------------------------------------------------------------------------
(* <DexFile as Parse>::parse as a state machine.  The decoders of the      *)
(* header, the map and the sections other than code_item are not part of   *)
(* this model: each of their steps either yields its value or fails, which *)
(* is all that parse does with them.  The items of the code_item section   *)
(* are decoded by the CodeItem machine above, from `buf`, which holds the  *)
(* file from the offset of that section (a multiple of 4) on.              *)

\* the code_item section of the generated files has up to MaxCodeItems items
MaxCodeItems == 2

\* The steps of parse in the order of the code.
DexSteps ==
  << "header", "map_list", "map", "string_id_item", "string_data", "type_id_item",
     "proto_id_item", "field_id_item", "method_id_item", "class_def_item",
     "code_item", "type_list", "annotation_item", "class_data_item",
     "encoded_array_item", "annotation_set_item", "annotation_set_ref_list",
     "annotations_directory_item", "call_site_id_item", "method_handle_item" >>

\* The sections read only `if let Some(item)` is in the map.
OptionalSteps == {"call_site_id_item", "method_handle_item"}

DexFileStart(size) ==
  [pc |-> "run", step |-> 1, size |-> size, fields |-> <<>>, code |-> <<>>,
   error |-> <<>>, returned |-> <<>>]

InitFile ==
  /\ \E first \in FirstUnits,
        insns_size \in {W32OfInt(n) : n \in 1..MaxInsnsSize} \cup HugeInsnsSizes :
       buf = CodeItemBytes(0, 0, insns_size, first, FillZero, 0)
  /\ pos = 0
  /\ build \in Builds
  /\ \E size \in 0..MaxCodeItems : df = DexFileStart(size)
  /\ ci = CodeItemIdle
  /\ rd = [pc |-> "idle"]
  /\ sp = [pc |-> "idle"]
  /\ wo = [pc |-> "idle"]
  /\ vm = [pc |-> "idle"]

\* A step other than the code_item section: `let x = ..?;`, or vec![] for an
\* optional section that the map does not have.
DexFileStep ==
  /\ df.pc = "run"
  /\ df.step <= Len(DexSteps)
  /\ DexSteps[df.step] # "code_item"
  /\ \E outcome \in {"ok", "err"} \cup
                   (IF DexSteps[df.step] \in OptionalSteps THEN {"absent"} ELSE {}) :
       df' = IF outcome = "err"
             THEN [df EXCEPT !.pc = "failed", !.error = <<DexSteps[df.step]>>]
             ELSE [df EXCEPT !.step = @ + 1, !.fields = Append(@, DexSteps[df.step])]
  /\ UNCHANGED <<build, buf, pos, ci, sp, wo, vm, rd>>

\* parse_section!(code_item, CodeItem): parser.offset(map.code_item.offset)
\* and the call of CodeItem::parse for the next item of parse_list.
DexFileCodeItem ==
  /\ df.pc = "run"
  /\ df.step <= Len(DexSteps)
  /\ DexSteps[df.step] = "code_item"
  /\ ci.pc = "idle"
  /\ Len(df.code) < df.size
  /\ ci' = CodeItemStart
  /\ pos' = IF df.code = <<>> THEN 0 ELSE pos
  /\ UNCHANGED <<build, buf, df, sp, wo, vm, rd>>

\* `res.push(self.parse()?)` of parse_list and the `?` of parse_section!:
\* what CodeItem::parse returned is pushed, or its error leaves parse; its
\* panic unwinds through parse.
DexFileCodeResult ==
  /\ df.pc = "run"
  /\ ci.pc \in {"done", "failed", "panicked"}
  /\ df' = CASE ci.pc = "done" -> [df EXCEPT !.code = Append(@, ci.insns)]
             [] ci.pc = "failed" -> [df EXCEPT !.pc = "failed", !.error = <<"code_item">>]
             [] ci.pc = "panicked" -> [df EXCEPT !.pc = "panicked"]
  /\ ci' = CodeItemIdle
  /\ UNCHANGED <<build, buf, pos, sp, wo, vm, rd>>

\* The end of parse_list for the code_item section
DexFileCodeEnd ==
  /\ df.pc = "run"
  /\ df.step <= Len(DexSteps)
  /\ DexSteps[df.step] = "code_item"
  /\ ci.pc = "idle"
  /\ Len(df.code) = df.size
  /\ df' = [df EXCEPT !.step = @ + 1, !.fields = Append(@, "code_item")]
  /\ UNCHANGED <<build, buf, pos, ci, sp, wo, vm, rd>>

\* Ok(DexFile { .. })
DexFileReturn ==
  /\ df.pc = "run"
  /\ df.step > Len(DexSteps)
  /\ df' = [df EXCEPT !.pc = "done",
                      !.returned = <<[fields |-> df.fields, code |-> df.code]>>]
  /\ UNCHANGED <<build, buf, pos, ci, sp, wo, vm, rd>>

NextFile ==
  \/ DexFileStep
  \/ DexFileCodeItem
  \/ CodeItemHeader
  \/ CodeItemEndOverflow
  \/ CodeItemInstruction
  \/ CodeItemTail
  \/ DexFileCodeResult
  \/ DexFileCodeEnd
  \/ DexFileReturn

SpecFile == InitFile /\ [][NextFile]_vars

---------------------------------------------------------------------------
(* The LEB128 readers called on their own (SpecLeb): one call of uleb128   *)
(* or sleb128 at the start of a byte source that holds one encoding,       *)
(* complete or cut short.                                                  *)

\* the encodings with bytes of several kinds have up to MaxLebPrefix
\* continuation bytes
MaxLebPrefix == 3

\* the encodings that repeat one continuation byte have up to MaxLebRun of them
MaxLebRun == 10

\* Bytes with bit 7 set, and bytes that end an encoding
ContBytes == {128, 142, 229, 255}

FinalBytes == {0, 1, 15, 16, 38, 127}

RECURSIVE Repeat(_, _)
Repeat(byte, n) == IF n = 0 THEN <<>> ELSE <<byte>> \o Repeat(byte, n - 1)

\* The byte sources: continuation bytes followed by a final byte or by the
\* end of the source.
LebInputs(prefix, run) ==
  LET ends == {<<f>> : f \in FinalBytes} \cup {<<>>}
      mixed == SeqsOver(ContBytes, prefix)
      runs == {Repeat(c, n) : c \in ContBytes, n \in 0..run}
  IN  {s \o e : s \in mixed \cup runs, e \in ends}

ReaderIdle == [pc |-> "idle"]

ReaderReady == [pc |-> "ready"]

\* The record of one call: the reader, the cursor it started at, its result
ReaderCalled(fn, at, res) == [pc |-> "called", fn |-> fn, at |-> at, res |-> res]

InitLeb ==
  /\ build \in {[trace |-> FALSE, overflow_checks |-> FALSE]}
  /\ buf \in LebInputs(MaxLebPrefix, MaxLebRun)
  /\ pos = 0
  /\ ci = CodeItemIdle
  /\ sp = [pc |-> "idle"]
  /\ wo = [pc |-> "idle"]
  /\ vm = [pc |-> "idle"]
  /\ df = [pc |-> "idle"]
  /\ rd = ReaderReady

\* parser.uleb128()
CallUleb128 ==
  /\ rd.pc = "ready"
  /\ \E r \in {Uleb128(buf, pos)} :
       /\ rd' = ReaderCalled("uleb128", pos, r)
       /\ pos' = r.pos
  /\ UNCHANGED <<build, buf, ci, sp, wo, vm, df>>

\* parser.sleb128()
CallSleb128 ==
  /\ rd.pc = "ready"
  /\ \E r \in {Sleb128(buf, pos)} :
       /\ rd' = ReaderCalled("sleb128", pos, r)
       /\ pos' = r.pos
  /\ UNCHANGED <<build, buf, ci, sp, wo, vm, df>>

NextLeb ==
  \/ CallUleb128
  \/ CallSleb128

SpecLeb == InitLeb /\ [][NextLeb]_vars

---------------------------------------------------------------------------
(* EncodedValue (types/id.rs): the header byte packs value_type (bits 0-4) *)
(* and value_arg (bits 5-7); the payload follows.  Every decoded value     *)
(* also keeps `at`, the cursor its header byte was read at, which the code *)
(* does not keep: it is there to state properties of nested values.        *)

\* The value_type codes that the match of parse has an arm for
ValueTypes == {0, 2, 3, 4, 6, 16, 17, 21, 22, 23, 24, 25, 26, 27, 28, 29, 30, 31}

\* The variant of EncodedValue that the arm of the value_type builds
ValueVariant(value_type) ==
  CASE value_type = 0 -> "Byte"
    [] value_type = 2 -> "Short"
    [] value_type = 3 -> "Char"
    [] value_type = 4 -> "Int"
    [] value_type = 6 -> "Long"
    [] value_type = 16 -> "Float"
    [] value_type = 17 -> "Double"
    [] value_type = 21 -> "MethodType"
    [] value_type = 22 -> "MethodHandle"
    [] value_type = 23 -> "String"
    [] value_type = 24 -> "Type"
    [] value_type = 25 -> "Field"
    [] value_type = 26 -> "Method"
    [] value_type = 27 -> "Enum"
    [] value_type = 28 -> "Array"
    [] value_type = 29 -> "Annotation"
    [] value_type = 30 -> "Null"
    [] value_type = 31 -> "Boolean"

\* A table that lets every value_arg through
MaxValueArgAny(value_type) == 7

\* The largest value_arg that the ensure! of the arm lets through
MaxValueArg(value_type) ==
  CASE value_type \in {0, 28, 29, 30} -> 0
    [] value_type \in {2, 3, 31} -> 1
    [] value_type \in {4, 16, 21, 22, 23, 24, 25, 26, 27} -> 3
    [] value_type \in {6, 17} -> 7

\* The length of the array `bytes` of the arm: `[0; 2]`, `[0; 4]`, `[0; 8]`
ValueWidth(value_type) ==
  CASE value_type \in {2, 3} -> 2
    [] value_type \in {4, 16, 21, 22, 23, 24, 25, 26, 27} -> 4
    [] value_type \in {6, 17} -> 8

\* `let mut bytes = [0; width]; parser.read_exact(&mut bytes[0..n])?`
ReadLowBytes(b, p, n, width) ==
  IF Avail(b, p, n)
  THEN Ok([i \in 1..width |-> IF i <= n THEN ByteAt(b, p + i - 1) ELSE 0], p + n)
  ELSE Fail("io", EofPos(b, p))

\* i16::from_le_bytes
I16FromLe(bytes) ==
  IF bytes[2] >= 128 THEN (bytes[1] + 256 * bytes[2]) - Limb ELSE bytes[1] + 256 * bytes[2]

\* u16::from_le_bytes
U16FromLe(bytes) == bytes[1] + 256 * bytes[2]

\* i32::from_le_bytes
I32FromLe(bytes) ==
  (IF bytes[4] >= 128 THEN U16FromLe(<<bytes[3], bytes[4]>>) - Limb
   ELSE U16FromLe(<<bytes[3], bytes[4]>>)) * Limb + U16FromLe(bytes)

\* u32::from_le_bytes
U32FromLe(bytes) == W32(U16FromLe(<<bytes[3], bytes[4]>>), U16FromLe(bytes))

\* i64::from_le_bytes: the sign, and the 64 bits as two u32, low one first
I64FromLe(bytes) ==
  [negative |-> bytes[8] >= 128,
   bits |-> <<U32FromLe(bytes), U32FromLe(<<bytes[5], bytes[6], bytes[7], bytes[8]>>)>>]

\* The value that the arm makes of `bytes`; a float and a double are kept
\* as their bits.
FromLeBytes(value_type, bytes) ==
  CASE value_type = 2 -> I16FromLe(bytes)
    [] value_type = 3 -> U16FromLe(bytes)
    [] value_type = 4 -> I32FromLe(bytes)
    [] value_type = 6 -> I64FromLe(bytes)
    [] value_type = 17 -> [bits |-> <<U32FromLe(bytes),
                                     U32FromLe(<<bytes[5], bytes[6], bytes[7], bytes[8]>>)>>]
    [] value_type = 16 -> [bits |-> U32FromLe(bytes)]
    [] OTHER -> U32FromLe(bytes)

EncodedValueOf(value_type, val, at) ==
  [variant |-> ValueVariant(value_type), val |-> val, at |-> at]

RECURSIVE EncodedValueParse(_, _)
RECURSIVE EncodedValueArm(_, _, _, _, _)
RECURSIVE ParseListEncodedValue(_, _, _, _)
RECURSIVE EncodedArrayParse(_, _)
RECURSIVE AnnotationElementParse(_, _)
RECURSIVE ParseListAnnotationElement(_, _, _, _)
RECURSIVE EncodedAnnotationParse(_, _)

\* Parser::parse_list::<EncodedValue>(len)
ParseListEncodedValue(b, p, len, acc) ==
  IF ~W32Less(W32OfInt(Len(acc)), len) THEN Ok(acc, p)
  ELSE Try(EncodedValueParse(b, p), LAMBDA r :
       ParseListEncodedValue(b, r.pos, len, Append(acc, r.val)))

\* <EncodedArray as Parse>::parse
EncodedArrayParse(b, p) ==
  Try(Uleb128(b, p), LAMBDA size :
  Try(ParseListEncodedValue(b, size.pos, size.val, <<>>), LAMBDA values :
  Ok([size |-> size.val, values |-> values.val], values.pos)))

\* AnnotationElement: parse_struct_default!(AnnotationElement { name_idx, value }),
\* name_idx being an Idx<StringIdItem, Uleb128>
AnnotationElementParse(b, p) ==
  Try(Uleb128(b, p), LAMBDA name_idx :
  Try(EncodedValueParse(b, name_idx.pos), LAMBDA value :
  Ok([name_idx |-> name_idx.val, value |-> value.val], value.pos)))

\* Parser::parse_list::<AnnotationElement>(len)
ParseListAnnotationElement(b, p, len, acc) ==
  IF ~W32Less(W32OfInt(Len(acc)), len) THEN Ok(acc, p)
  ELSE Try(AnnotationElementParse(b, p), LAMBDA r :
       ParseListAnnotationElement(b, r.pos, len, Append(acc, r.val)))

\* <EncodedAnnotation as Parse>::parse
EncodedAnnotationParse(b, p) ==
  Try(Uleb128(b, p), LAMBDA type_idx :
  Try(Uleb128(b, type_idx.pos), LAMBDA size :
  Try(ParseListAnnotationElement(b, size.pos, size.val, <<>>), LAMBDA elements :
  Ok([type_idx |-> type_idx.val, size |-> size.val, elements |-> elements.val],
     elements.pos))))

\* The arm of `match value_type`: its ensure!, then its reads.  p is the
\* cursor after the header byte, at the cursor of the header byte.
EncodedValueArm(b, p, value_type, value_arg, at) ==
  IF value_type \notin ValueTypes THEN Fail("invalid value_type", p)
  ELSE IF value_arg > MaxValueArg(value_type) THEN Fail("value_arg", p)
  ELSE IF value_type = 0
  THEN Try(U8(b, p), LAMBDA r : Ok(EncodedValueOf(0, r.val, at), r.pos))
  ELSE IF value_type = 28
  THEN Try(EncodedArrayParse(b, p), LAMBDA r : Ok(EncodedValueOf(28, r.val, at), r.pos))
  ELSE IF value_type = 29
  THEN Try(EncodedAnnotationParse(b, p), LAMBDA r : Ok(EncodedValueOf(29, r.val, at), r.pos))
  ELSE IF value_type = 30 THEN Ok(EncodedValueOf(30, <<>>, at), p)
  ELSE IF value_type = 31 THEN Ok(EncodedValueOf(31, value_arg = 1, at), p)
  ELSE Try(ReadLowBytes(b, p, value_arg + 1, ValueWidth(value_type)), LAMBDA r :
       Ok(EncodedValueOf(value_type, FromLeBytes(value_type, r.val), at), r.pos))

\* <EncodedValue as Parse>::parse
EncodedValueParse(b, p) ==
  Try(U8(b, p), LAMBDA val :
  EncodedValueArm(b, val.pos, val.val % 32, val.val \div 32, p))

---------------------------------------------------------------------------
(* EncodedValue::parse called on its own (SpecValue).                      *)

\* the payloads of one repeated byte have up to MaxPayload bytes
MaxPayload == 8

\* the payloads of arrays and annotations have up to MaxNested bytes
MaxNested == 4

PayloadBytes == {1, 127, 255}

NestedBytes == {0, 1, 2, 28, 29, 30, 32, 255}

\* A header byte of any value followed by a run of one byte and perhaps one
\* more byte; the header of an array or an annotation followed by sizes,
\* indexes and the headers of nested values.
ValueInputs(payload, nested) ==
  {(<<h>> \o Repeat(c, n)) \o e :
     h \in Byte, c \in PayloadBytes, n \in 0..payload, e \in {<<>>, <<0>>, <<128>>}}
  \cup {<<h>> \o s : h \in {28, 29}, s \in SeqsOver(NestedBytes, nested)}

InitValue ==
  /\ build \in {[trace |-> FALSE, overflow_checks |-> FALSE]}
  /\ buf \in ValueInputs(MaxPayload, MaxNested)
  /\ pos = 0
  /\ ci = CodeItemIdle
  /\ sp = [pc |-> "idle"]
  /\ wo = [pc |-> "idle"]
  /\ vm = [pc |-> "idle"]
  /\ df = [pc |-> "idle"]
  /\ rd = ReaderReady

\* parser.parse::<EncodedValue>()
CallEncodedValueParse ==
  /\ rd.pc = "ready"
  /\ \E r \in {EncodedValueParse(buf, pos)} :
       /\ rd' = ReaderCalled("EncodedValue::parse", pos, r)
       /\ pos' = r.pos
  /\ UNCHANGED <<build, buf, ci, sp, wo, vm, df>>

NextValue == CallEncodedValueParse

SpecValue == InitValue /\ [][NextValue]_vars

---------------------------------------------------------------------------
(* Header (types/header.rs).                                               *)

\* DEX_FILE_MAGIC[..4]
DexFileMagic == <<100, 101, 120, 10>>

\* <EndianConstant as TryFrom<u32>>::try_from
EndianConstantTryFrom(value, p) ==
  IF value = W32(4660, 22136) THEN Ok("EndianConstant", p)
  ELSE IF value = W32(30806, 13330) THEN Ok("ReverseEndianConstant", p)
  ELSE Fail("Not a valid endian constant", p)

\* `parser.read_exact(&mut array)` for an array of n bytes
ReadExact(b, p, n) ==
  IF Avail(b, p, n) THEN Ok([i \in 1..n |-> ByteAt(b, p + i - 1)], p + n)
  ELSE Fail("io", EofPos(b, p))

IsContinuationByte(c) == c \in 128..191

\* core::str::from_utf8 on three bytes: are they well-formed UTF-8
Utf8Valid3(s) ==
  \/ s[1] < 128 /\ s[2] < 128 /\ s[3] < 128
  \/ s[1] < 128 /\ s[2] \in 194..223 /\ IsContinuationByte(s[3])
  \/ s[1] \in 194..223 /\ IsContinuationByte(s[2]) /\ s[3] < 128
  \/ s[1] = 224 /\ s[2] \in 160..191 /\ IsContinuationByte(s[3])
  \/ s[1] \in (225..236) \cup (238..239) /\ IsContinuationByte(s[2])
       /\ IsContinuationByte(s[3])
  \/ s[1] = 237 /\ s[2] \in 128..159 /\ IsContinuationByte(s[3])

IsAsciiDigit(c) == c \in 48..57

\* `version_str.parse::<u32>()` on a string of three bytes: decimal digits,
\* which one leading `+` may precede
ParseU32Of3(s, p) ==
  IF IsAsciiDigit(s[1]) /\ IsAsciiDigit(s[2]) /\ IsAsciiDigit(s[3])
  THEN Ok(((s[1] - 48) * 100 + (s[2] - 48) * 10) + (s[3] - 48), p)
  ELSE IF s[1] = 43 /\ IsAsciiDigit(s[2]) /\ IsAsciiDigit(s[3])
  THEN Ok((s[2] - 48) * 10 + (s[3] - 48), p)
  ELSE Fail("parsing version string", p)

\* Header::verify_header, with the last byte of the magic left unchecked
VerifyHeaderAnyLast(b, p) ==
  Try(ReadExact(b, p, 8), LAMBDA magic :
  IF SubSeq(magic.val, 1, 4) # DexFileMagic
  THEN Fail("Magic doesn't match", magic.pos)
  ELSE IF ~Utf8Valid3(SubSeq(magic.val, 5, 7))
  THEN Fail("converting version bytes to string", magic.pos)
  ELSE ParseU32Of3(SubSeq(magic.val, 5, 7), magic.pos))

\* Header::verify_header
VerifyHeader(b, p) ==
  Try(ReadExact(b, p, 8), LAMBDA magic :
  IF SubSeq(magic.val, 1, 4) # DexFileMagic \/ magic.val[8] # 0
  THEN Fail("Magic doesn't match", magic.pos)
  ELSE IF ~Utf8Valid3(SubSeq(magic.val, 5, 7))
  THEN Fail("converting version bytes to string", magic.pos)
  ELSE ParseU32Of3(SubSeq(magic.val, 5, 7), magic.pos))

\* n times `parser.u32()?`, one after the other
RECURSIVE ReadU32s(_, _, _, _)
ReadU32s(b, p, n, acc) ==
  IF Len(acc) = n THEN Ok(acc, p)
  ELSE Try(U32(b, p), LAMBDA r : ReadU32s(b, r.pos, n, Append(acc, r.val)))

\* The fields of Header from link_size to data_off, in the order of the
\* struct expression
HeaderRest(b, p) ==
  Try(ReadU32s(b, p, 17, <<>>), LAMBDA r :
  Ok([link_size |-> r.val[1], link_off |-> r.val[2], map_off |-> r.val[3],
      string_ids_size |-> r.val[4], string_ids_off |-> r.val[5],
      type_ids_size |-> r.val[6], type_ids_off |-> r.val[7],
      proto_ids_size |-> r.val[8], proto_ids_off |-> r.val[9],
      field_ids_size |-> r.val[10], field_ids_off |-> r.val[11],
      method_ids_size |-> r.val[12], method_ids_off |-> r.val[13],
      class_defs_size |-> r.val[14], class_defs_off |-> r.val[15],
      data_size |-> r.val[16], data_off |-> r.val[17]], r.pos))

\* Header::parse
HeaderParse(b, p) ==
  Try(VerifyHeader(b, Align(p, 4)), LAMBDA version :
  Try(U32(b, version.pos), LAMBDA checksum :
  Try(ReadExact(b, checksum.pos, 20), LAMBDA signature :
  Try(U32(b, signature.pos), LAMBDA file_size :
  Try(U32(b, file_size.pos), LAMBDA header_size :
  Try(U32(b, header_size.pos), LAMBDA tag :
  Try(EndianConstantTryFrom(tag.val, tag.pos), LAMBDA endian_tag :
  Try(HeaderRest(b, endian_tag.pos), LAMBDA rest :
  Ok([format_version |-> version.val, checksum |-> checksum.val,
      signature |-> signature.val, file_size |-> file_size.val,
      header_size |-> header_size.val, endian_tag |-> endian_tag.val,
      rest |-> rest.val], rest.pos)))))))))

\* The four bytes of a u32, little-endian
U32Bytes(w) == <<w.lo % 256, w.lo \div 256, w.hi % 256, w.hi \div 256>>

\* The bytes of header_item after the magic and before link_size
HeaderImageHead(header_size, tag) ==
  U32Bytes(W32(0, 0)) \o [i \in 1..20 |-> i] \o U32Bytes(W32(0, 112))
    \o U32Bytes(header_size) \o U32Bytes(tag)

\* The bytes of header_item from link_size on: no link section, a map at
\* map_off, the six id sections empty
HeaderImageRest(map_off) ==
  U32Bytes(W32(0, 0)) \o U32Bytes(W32(0, 0)) \o U32Bytes(map_off)
    \o [i \in 1..56 |-> 0]

\* A header_item of 112 bytes
HeaderImage(magic, version, last, header_size, tag, map_off) ==
  magic \o version \o <<last>> \o HeaderImageHead(header_size, tag)
    \o HeaderImageRest(map_off)

MagicSamples == {DexFileMagic, <<100, 101, 121, 10>>, <<68, 101, 120, 10>>,
                 <<100, 101, 120, 13>>}

\* '0' '3' '5' '9' '+' '-' ' ' 'a', and bytes of multi-byte UTF-8
VersionByteSamples == {48, 51, 53, 57, 43, 45, 32, 97, 195, 169, 255}

HeaderSizeSamples == {W32(0, 112), W32(0, 113), W32(0, 0), W32(1, 112)}

EndianTagSamples == {W32(4660, 22136), W32(30806, 13330), W32(4660, 22137),
                     W32(22136, 4660)}

\* Where a source is cut short, and what follows a whole header
HeaderCuts == {0, 3, 7, 8, 12, 43, 44, 111, 112}

HeaderInputs(versions) ==
  {HeaderImage(DexFileMagic, <<a, c, d>>, last, W32(0, 112), tag, W32(0, 112)) :
     a \in versions, c \in versions, d \in versions,
     last \in {0, 1}, tag \in EndianTagSamples}
  \cup
  {SubSeq(HeaderImage(magic, version, last, header_size, tag, W32(0, 112)), 1, cut) :
     magic \in MagicSamples, version \in {<<48, 51, 53>>, <<43, 51, 53>>, <<97, 51, 53>>},
     last \in {0, 1}, header_size \in HeaderSizeSamples, tag \in EndianTagSamples,
     cut \in HeaderCuts}
  \cup
  {HeaderImage(DexFileMagic, <<48, 51, 57>>, 0, header_size, tag, W32(0, 112)) \o <<1, 2, 3>> :
     header_size \in HeaderSizeSamples, tag \in EndianTagSamples}

InitHeader ==
  /\ build \in {[trace |-> FALSE, overflow_checks |-> FALSE]}
  /\ buf \in HeaderInputs(VersionByteSamples)
  /\ pos = 0
  /\ ci = CodeItemIdle
  /\ sp = [pc |-> "idle"]
  /\ wo = [pc |-> "idle"]
  /\ vm = [pc |-> "idle"]
  /\ df = [pc |-> "idle"]
  /\ rd = ReaderReady

\* `parser.offset(0)?.parse::<Header>()`
CallHeaderParse ==
  /\ rd.pc = "ready"
  /\ \E r \in {HeaderParse(buf, pos)} :
       /\ rd' = ReaderCalled("Header::parse", pos, r)
       /\ pos' = r.pos
  /\ UNCHANGED <<build, buf, ci, sp, wo, vm, df>>

NextHeader == CallHeaderParse

SpecHeader == InitHeader /\ [][NextHeader]_vars

---------------------------------------------------------------------------
(* The two enums Format: dex::asm::Format (above) and parser::asm::Format.  *)

\* parser::asm::Format::size()
ParserFormatSize(f) ==
  CASE f \in {"Format10t", "Format10x", "Format11n", "Format11x", "Format12x"} -> 1
    [] f \in {"Format20bc", "Format20t", "Format21c", "Format21ih", "Format21lh",
              "Format21s", "Format21t", "Format22b", "Format22c", "Format22cs",
              "Format22s", "Format22t", "Format22x", "Format23x"} -> 2
    [] f \in {"Format30t", "Format31c", "Format31i", "Format31t", "Format32x",
              "Format35c", "Format35mi", "Format35ms", "Format3rc", "Format3rmi",
              "Format3rms"} -> 3
    [] f \in {"Format45cc", "Format4rcc"} -> 4
    [] f = "Format51l" -> 5
    [] OTHER -> -1

\* parser::asm::Format::payload(): the variants without the attribute get
\* Default::default()
ParserFormatPayload(f) ==
  f \in {"ArrayPayload", "PackedSwitchPayload", "SparseSwitchPayload"}

FormatModules == {"dex::asm", "parser::asm"}

\* A value of one of the two enums, about to be asked
FormatValue(module, f) == [pc |-> "format", module |-> module, format |-> f]

InitFormat ==
  /\ build \in {[trace |-> FALSE, overflow_checks |-> FALSE]}
  /\ buf = <<>>
  /\ pos = 0
  /\ ci = CodeItemIdle
  /\ sp = [pc |-> "idle"]
  /\ wo = [pc |-> "idle"]
  /\ vm = [pc |-> "idle"]
  /\ df = [pc |-> "idle"]
  /\ rd \in {FormatValue(module, f) : module \in FormatModules, f \in Formats}

\* format.size()
CallFormatSize ==
  /\ rd.pc = "format"
  /\ rd' = ReaderCalled("Format::size", rd,
             IF rd.module = "dex::asm" THEN FormatSize(rd.format)
             ELSE ParserFormatSize(rd.format))
  /\ UNCHANGED <<build, buf, pos, ci, sp, wo, vm, df>>

\* format.payload()
CallFormatPayload ==
  /\ rd.pc = "format"
  /\ rd' = ReaderCalled("Format::payload", rd,
             IF rd.module = "dex::asm" THEN FormatPayload(rd.format)
             ELSE ParserFormatPayload(rd.format))
  /\ UNCHANGED <<build, buf, pos, ci, sp, wo, vm, df>>

NextFormat == CallFormatSize \/ CallFormatPayload

SpecFormat == InitFormat /\ [][NextFormat]_vars

---------------------------------------------------------------------------
(* DexFile::parse on the bytes of a file: header, map list, map and the     *)
(* sections (types/map.rs, types/file.rs, types/id.rs).                     *)

\* <TypeCode as TryFrom<u16>>::try_from: the values of the match
TypeCodeValues ==
  [HeaderItem |-> 0, StringIdItem |-> 1, TypeIdItem |-> 2, ProtoIdItem |-> 3,
   FieldIdItem |-> 4, MethodIdItem |-> 5, ClassDefItem |-> 6, CallSiteIdItem |-> 7,
   MethodHandleItem |-> 8, MapList |-> 4096, TypeList |-> 4097,
   AnnotationSetRefList |-> 4098, AnnotationSetItem |-> 4099,
   ClassDataItem |-> 8192, CodeItem |-> 8193, StringDataItem |-> 8194,
   DebugInfoItem |-> 8195, AnnotationItem |-> 8196, EncodedArrayItem |-> 8197,
   AnnotationsDirectoryItem |-> 8198, HiddenapiClassDataItem |-> 61440]

\* enum TypeCode
TypeCodes == DOMAIN TypeCodeValues

TypeCodeTryFrom(value, p) ==
  IF \E t \in TypeCodes : TypeCodeValues[t] = value
  THEN Ok(CHOOSE t \in TypeCodes : TypeCodeValues[t] = value, p)
  ELSE Fail("not a valid Type Code", p)

\* <MapItem as Parse>::parse
MapItemParse(b, p) ==
  Try(U16(b, p), LAMBDA code :
  Try(TypeCodeTryFrom(code.val, code.pos), LAMBDA item_type :
  Try(U16(b, item_type.pos), LAMBDA unused :
  Try(U32(b, unused.pos), LAMBDA size :
  Try(U32(b, size.pos), LAMBDA offset :
  Ok([item_type |-> item_type.val, size |-> size.val, offset |-> offset.val],
     offset.pos))))))

\* Parser::parse_list::<MapItem>(len)
RECURSIVE ParseListMapItem(_, _, _, _)
ParseListMapItem(b, p, len, acc) ==
  IF ~W32Less(W32OfInt(Len(acc)), len) THEN Ok(acc, p)
  ELSE Try(MapItemParse(b, p), LAMBDA r :
       ParseListMapItem(b, r.pos, len, Append(acc, r.val)))

\* <MapList as Parse>::parse
MapListParse(b, p) ==
  Try(U32(b, Align(p, 4)), LAMBDA size :
  Try(ParseListMapItem(b, size.pos, size.val, <<>>), LAMBDA list :
  Ok([size |-> size.val, list |-> list.val], list.pos)))

\* MapList::item: the first item of the list with the type code
MapListItem(map_list, typ, p) ==
  IF \E i \in 1..Len(map_list.list) : map_list.list[i].item_type = typ
  THEN Ok(map_list.list[CHOOSE i \in 1..Len(map_list.list) :
                          /\ map_list.list[i].item_type = typ
                          /\ \A j \in 1..(i - 1) : map_list.list[j].item_type # typ], p)
  ELSE Fail("could not find item with code", p)

\* The fields of Map that are Option<MapItem>, filled with `.ok()`
OptionalItems == {"CallSiteIdItem", "MethodHandleItem", "HiddenapiClassDataItem"}

\* A Map made with `.ok()` for every item
MapListMapAllOptional(map_list, p) ==
  Ok([t \in TypeCodes |->
        IF MapListItem(map_list, t, p).st = "ok"
        THEN <<MapListItem(map_list, t, p).val>> ELSE <<>>], p)

\* MapList::map: a Map has the item of each type code, None (<<>>) for an
\* optional one that is not in the list
MapListMap(map_list, p) ==
  IF \E t \in TypeCodes \ OptionalItems : MapListItem(map_list, t, p).st # "ok"
  THEN Fail("could not find item with code", p)
  ELSE Ok([t \in TypeCodes |->
             IF MapListItem(map_list, t, p).st = "ok"
             THEN <<MapListItem(map_list, t, p).val>> ELSE <<>>], p)

\* `parser.offset(offset)`: the cursor after the seek.  Offsets from 2^30 on
\* are far behind the end of every source here, and are all taken for 2^30.
SeekTo(offset) ==
  IF offset.hi < 16384 THEN offset.hi * Limb + offset.lo ELSE 16384 * Limb

\* The structs made by parse_struct_default! with alignment 4 whose fields
\* are Idx or Ref: each field with the width of its number and what it
\* refers to
StructFields ==
  [StringIdItem |-> <<[name |-> "string_data_off", width |-> 4, ref |-> "Ref",
                       to |-> "StringDataItem"]>>,
   TypeIdItem |-> <<[name |-> "descriptor_idx", width |-> 4, ref |-> "Idx",
                     to |-> "StringIdItem"]>>,
   ProtoIdItem |-> <<[name |-> "shorty_idx", width |-> 4, ref |-> "Idx",
                      to |-> "StringIdItem"],
                     [name |-> "return_type_idx", width |-> 4, ref |-> "Idx",
                      to |-> "TypeIdItem"],
                     [name |-> "parameters", width |-> 4, ref |-> "Ref",
                      to |-> "TypeList"]>>,
   FieldIdItem |-> <<[name |-> "class_idx", width |-> 2, ref |-> "Idx",
                      to |-> "TypeIdItem"],
                     [name |-> "type_idx", width |-> 2, ref |-> "Idx",
                      to |-> "TypeIdItem"],
                     [name |-> "name_idx", width |-> 4, ref |-> "Idx",
                      to |-> "StringIdItem"]>>,
   MethodIdItem |-> <<[name |-> "class_idx", width |-> 2, ref |-> "Idx",
                       to |-> "TypeIdItem"],
                      [name |-> "proto_idx", width |-> 2, ref |-> "Idx",
                       to |-> "ProtoIdItem"],
                      [name |-> "name_idx", width |-> 4, ref |-> "Idx",
                       to |-> "StringIdItem"]>>,
   CallSiteIdItem |-> <<[name |-> "call_site_off", width |-> 4, ref |-> "Ref",
                         to |-> "CallSiteItem"]>>]

\* <Idx as Parse>::parse and <Ref as Parse>::parse: the number N is parsed
\* and converted, nothing else
IdxOrRefParse(b, p, width) ==
  IF width = 2 THEN Try(U16(b, p), LAMBDA n : Ok(W32(0, n.val), n.pos))
  ELSE U32(b, p)

\* The field expressions of parse_struct_default!, from field i on
RECURSIVE ParseStructFields(_, _, _, _, _)
ParseStructFields(b, p, fields, i, acc) ==
  IF i > Len(fields) THEN Ok(acc, p)
  ELSE Try(IdxOrRefParse(b, p, fields[i].width), LAMBDA n :
       ParseStructFields(b, n.pos, fields, i + 1, Append(acc, n.val)))

\* parse_struct_default!($name 4 {...}): the item with the cursor `at` where
\* its first field was read
ParseStructDefault(kind, b, p) ==
  Try(ParseStructFields(b, Align(p, 4), StructFields[kind], 1, <<>>), LAMBDA r :
  Ok([kind |-> kind, at |-> Align(p, 4), fields |-> r.val], r.pos))

\* Parser::parse_list::<T>(len) for the structs above
RECURSIVE ParseListStruct(_, _, _, _, _)
ParseListStruct(kind, b, p, len, acc) ==
  IF ~W32Less(W32OfInt(Len(acc)), len) THEN Ok(acc, p)
  ELSE Try(ParseStructDefault(kind, b, p), LAMBDA r :
       ParseListStruct(kind, b, r.pos, len, Append(acc, r.val)))

\* parse_utf8_bytes_utf16_len_string: the loop `for _ in 0..len`, n units done
RECURSIVE ParseStringLoop(_, _, _, _, _, _)
ParseStringLoop(b, p, len, n, at, chars) ==
  IF ~W32Less(W32OfInt(n), len) THEN Ok(FromUtf16Lossy(chars, 1, <<>>), p)
  ELSE Try(Mutf8Unit(b, p, at), LAMBDA r :
       ParseStringLoop(b, r.pos, len, n + 1, r.val.at, Append(chars, r.val.out)))

\* <StringDataItem as Parse>::parse
StringDataItemParse(b, p) ==
  Try(Uleb128(b, p), LAMBDA size :
  Try(ParseStringLoop(b, size.pos, size.val, 0, 0, <<>>), LAMBDA string :
  Ok([size |-> size.val, data |-> SubSeq(b, size.pos + 1, string.pos),
      string |-> string.val, at |-> p], string.pos)))

\* string_ids.iter().map(|id| parser.offset(*id.string_data_off)
\*   .and_then(|p| p.parse())).collect::<Result<_>>()
RECURSIVE CollectStringData(_, _, _, _, _)
CollectStringData(b, p, string_ids, i, acc) ==
  IF i > Len(string_ids) THEN Ok(acc, p)
  ELSE Try(StringDataItemParse(b, SeekTo(string_ids[i].fields[1])), LAMBDA r :
       CollectStringData(b, r.pos, string_ids, i + 1, Append(acc, r.val)))

\* The sections read with parse_section!, in the order of DexFile::parse
SectionOrder ==
  <<"StringIdItem", "TypeIdItem", "ProtoIdItem", "FieldIdItem", "MethodIdItem",
    "ClassDefItem", "CodeItem", "TypeList", "AnnotationItem", "ClassDataItem",
    "EncodedArrayItem", "AnnotationSetItem", "AnnotationSetRefList",
    "AnnotationsDirectoryItem", "CallSiteIdItem", "MethodHandleItem">>

\* parse_section!: `parser.offset(item.offset)?.parse_list(item.size)`.  The
\* items of the sections that are no struct above are not decoded here: such
\* a section is read when its size is 0 only.
ParseSection(kind, b, item) ==
  IF kind \in DOMAIN StructFields
  THEN ParseListStruct(kind, b, SeekTo(item.offset), item.size, <<>>)
  ELSE CASE item.size = W32(0, 0) -> Ok(<<>>, SeekTo(item.offset))

\* The sections from number i on; lists has the vectors read so far.  An
\* optional section without item in the map is `vec![]`.
RECURSIVE ParseSections(_, _, _, _, _)
ParseSections(b, p, map, i, lists) ==
  IF i > Len(SectionOrder) THEN Ok(lists, p)
  ELSE LET kind == SectionOrder[i]
       IN  IF map[kind] = <<>>
           THEN ParseSections(b, p, map, i + 1, [lists EXCEPT ![kind] = <<>>])
           ELSE Try(ParseSection(kind, b, map[kind][1]), LAMBDA r :
                IF kind = "StringIdItem"
                THEN Try(CollectStringData(b, r.pos, r.val, 1, <<>>), LAMBDA s :
                     ParseSections(b, s.pos, map, i + 1,
                       [lists EXCEPT ![kind] = r.val, !["StringDataItem"] = s.val]))
                ELSE ParseSections(b, r.pos, map, i + 1, [lists EXCEPT ![kind] = r.val]))

\* <DexFile as Parse>::parse.  lists has the vectors of the DexFile by the
\* type of their items: string_ids at StringIdItem, string_data at
\* StringDataItem, debug_info (`vec![]`) at DebugInfoItem, and so on.
DexFileParse(b) ==
  Try(HeaderParse(b, SeekTo(W32(0, 0))), LAMBDA header :
  Try(MapListParse(b, SeekTo(header.val.rest.map_off)), LAMBDA map_list :
  Try(MapListMap(map_list.val, map_list.pos), LAMBDA map :
  Try(ParseSections(b, map.pos, map.val, 1,
                    [t \in {"StringDataItem", "DebugInfoItem"} \cup
                           {SectionOrder[i] : i \in 1..Len(SectionOrder)} |-> <<>>]),
      LAMBDA lists :
  Ok([header |-> header.val, map_list |-> map_list.val, lists |-> lists.val],
     lists.pos)))))

---------------------------------------------------------------------------
(* Files for DexFile::parse: a header, string ids, type ids, string data    *)
(* and a map list, with the variations that the parse can meet.             *)

\* The largest number of string ids and of type ids in a file
MaxIds == 2

U16Bytes(n) == <<n % 256, n \div 256>>

\* map_item: type, unused, size, offset
MapItemBytes(item) ==
  U16Bytes(item.code) \o <<0, 0>> \o U32Bytes(item.size) \o U32Bytes(item.offset)

RECURSIVE Concat(_)
Concat(seqs) == IF seqs = <<>> THEN <<>> ELSE Head(seqs) \o Concat(Tail(seqs))

\* map_list: size and the items
MapListBytes(items) ==
  U32Bytes(W32OfInt(Len(items))) \o Concat([i \in 1..Len(items) |-> MapItemBytes(items[i])])

\* The string data of the files: "a" at +0, a unit count of 97 without its
\* units at +1, "" at +2 and at +3
StringData == <<1, 97, 0, 0>>

\* The type codes of a map in the order of their sections in a file
MapOrder ==
  <<"HeaderItem", "StringIdItem", "TypeIdItem", "ProtoIdItem", "FieldIdItem",
    "MethodIdItem", "ClassDefItem", "TypeList", "AnnotationSetRefList",
    "AnnotationSetItem", "ClassDataItem", "CodeItem", "StringDataItem",
    "DebugInfoItem", "AnnotationItem", "EncodedArrayItem",
    "AnnotationsDirectoryItem", "MapList">>

\* Where the sections of a file with ns string ids and nt type ids begin
TypeIdsOff(ns) == HeaderSize + 4 * ns

DataOff(ns, nt) == TypeIdsOff(ns) + 4 * nt

MapOff(ns, nt) == DataOff(ns, nt) + Len(StringData)

\* The map of such a file.  v has what a file may declare in another way:
\* the offset of the header item, the offset of the map list item, the size
\* of the debug info section and the offset of the type ids.
MapItemOf(t, ns, nt, v) ==
  [code |-> TypeCodeValues[t],
   size |-> W32OfInt(CASE t \in {"HeaderItem", "MapList"} -> 1
                       [] t \in {"StringIdItem", "StringDataItem"} -> ns
                       [] t = "TypeIdItem" -> nt
                       [] t = "DebugInfoItem" -> v.debug_info_size
                       [] OTHER -> 0),
   offset |-> W32OfInt(CASE t = "HeaderItem" -> v.header_off
                         [] t = "StringIdItem" -> HeaderSize
                         [] t = "TypeIdItem" -> TypeIdsOff(ns) - v.type_ids_back
                         [] t \in {"StringDataItem", "DebugInfoItem"} -> DataOff(ns, nt)
                         [] t = "MapList" -> MapOff(ns, nt) - v.map_list_back
                         [] OTHER -> 0)]

BaseMap(ns, nt, v) == [i \in 1..Len(MapOrder) |-> MapItemOf(MapOrder[i], ns, nt, v)]

PlainMap == [header_off |-> 0, map_list_back |-> 0, debug_info_size |-> 0,
             type_ids_back |-> 0]

MapVariations ==
  [header_off : {0, 4}, map_list_back : {0, 12}, debug_info_size : {0, 1},
   type_ids_back : {0, 3}]

\* A second item for a type code, an item less (for every type code of the
\* map), an item with a code that is no type code, and the optional items
MapEdits ==
  {[op |-> "none", t |-> "HeaderItem"]}
  \cup [op : {"first", "last", "drop"},
        t : {"HeaderItem", "MapList", "TypeIdItem", "DebugInfoItem"}]
  \cup [op : {"last"}, t : OptionalItems]
  \cup [op : {"drop"}, t : {MapOrder[i] : i \in 1..Len(MapOrder)}]
  \cup {[op |-> "code", t |-> "HeaderItem"]}

EmptyItem(t) == [code |-> TypeCodeValues[t], size |-> W32(0, 0), offset |-> W32(0, 0)]

EditMap(items, e) ==
  CASE e.op = "none" -> items
    [] e.op = "first" -> <<EmptyItem(e.t)>> \o items
    [] e.op = "last" -> items \o <<EmptyItem(e.t)>>
    [] e.op = "drop" ->
         SelectSeq(items, LAMBDA item : item.code # TypeCodeValues[e.t])
    [] e.op = "code" -> items \o <<[EmptyItem(e.t) EXCEPT !.code = 9]>>

\* The file with the string ids and type ids given by their numbers
DexImage(string_data_offs, descriptor_idxs, items) ==
  HeaderImage(DexFileMagic, <<48, 51, 53>>, 0, W32(0, HeaderSize), W32(4660, 22136),
              W32OfInt(MapOff(Len(string_data_offs), Len(descriptor_idxs))))
    \o Concat([i \in 1..Len(string_data_offs) |-> U32Bytes(string_data_offs[i])])
    \o Concat([i \in 1..Len(descriptor_idxs) |-> U32Bytes(descriptor_idxs[i])])
    \o StringData
    \o MapListBytes(items)

\* string_data_off: the three strings, the count without units, inside the
\* header (its checksum), and behind the end of the file
StringDataOffs(ns, nt) ==
  {W32OfInt(DataOff(ns, nt) + k) : k \in {0, 1, 2}} \cup {W32(0, 8), W32(1, 0)}

\* descriptor_idx: the first strings, an index that no file here has, NO_INDEX
DescriptorIdxs == {W32(0, 0), W32(0, 1), W32(0, 5), W32(65535, 65535)}

DexInputs(ids) ==
  UNION {
    {DexImage(offs, idxs, BaseMap(ns, nt, PlainMap)) :
       offs \in [1..ns -> StringDataOffs(ns, nt)], idxs \in [1..nt -> DescriptorIdxs]} :
    ns \in 0..ids, nt \in 0..ids}
  \cup
  {DexImage(<<W32OfInt(DataOff(1, 1))>>, <<W32(0, 0)>>, EditMap(BaseMap(1, 1, v), e)) :
     v \in MapVariations, e \in MapEdits}
  \cup
  {SubSeq(DexImage(<<W32OfInt(DataOff(1, 1))>>, <<W32(0, 0)>>, BaseMap(1, 1, PlainMap)),
          1, cut) : cut \in {100, 114, 118, 122, 128, 150}}

InitDex ==
  /\ build \in {[trace |-> FALSE, overflow_checks |-> FALSE]}
  /\ buf \in DexInputs(MaxIds)
  /\ pos = 0
  /\ ci = CodeItemIdle
  /\ sp = [pc |-> "idle"]
  /\ wo = [pc |-> "idle"]
  /\ vm = [pc |-> "idle"]
  /\ df = [pc |-> "idle"]
  /\ rd = ReaderReady

\* DexFile::parse(&mut parser)
CallDexFileParse ==
  /\ rd.pc = "ready"
  /\ \E r \in {DexFileParse(buf)} :
       /\ rd' = ReaderCalled("DexFile::parse", pos, r)
       /\ pos' = r.pos
  /\ UNCHANGED <<build, buf, ci, sp, wo, vm, df>>

NextDex == CallDexFileParse

SpecDex == InitDex /\ [][NextDex]_vars

---------------------------------------------------------------------------
(* Items of the data section parsed on their own (types/id.rs):            *)
(* AnnotationsDirectoryItem, ClassDataItem and EncodedCatchHandler.        *)

\* The structs of an annotations directory, made by parse_struct_default!
\* without alignment: each field with the width of its number and what it
\* refers to
DirectoryFields ==
  [FieldAnnotation |-> <<[name |-> "field_idx", width |-> 4, ref |-> "Idx",
                          to |-> "FieldIdItem"],
                         [name |-> "annotations_off", width |-> 4, ref |-> "Ref",
                          to |-> "AnnotationSetItem"]>>,
   MethodAnnotation |-> <<[name |-> "method_idx", width |-> 4, ref |-> "Idx",
                           to |-> "MethodIdItem"],
                          [name |-> "annotations_off", width |-> 4, ref |-> "Ref",
                           to |-> "AnnotationSetItem"]>>,
   ParameterAnnotation |-> <<[name |-> "method_idx", width |-> 4, ref |-> "Idx",
                              to |-> "MethodIdItem"],
                             [name |-> "annotations_off", width |-> 4, ref |-> "Ref",
                              to |-> "AnnotationSetItem"]>>]

\* parse_struct_default!($name {...}) for the structs above
DirectoryStructParse(kind, b, p) ==
  Try(ParseStructFields(b, p, DirectoryFields[kind], 1, <<>>), LAMBDA r :
  Ok([kind |-> kind, at |-> p, fields |-> r.val], r.pos))

\* Parser::parse_list::<T>(len) for the structs above
RECURSIVE ParseListDirectoryStruct(_, _, _, _, _)
ParseListDirectoryStruct(kind, b, p, len, acc) ==
  IF ~W32Less(W32OfInt(Len(acc)), len) THEN Ok(acc, p)
  ELSE Try(DirectoryStructParse(kind, b, p), LAMBDA r :
       ParseListDirectoryStruct(kind, b, r.pos, len, Append(acc, r.val)))

\* `(size != 0).not().then(|| parser.parse_list(size)).transpose()?`: the
\* Option is <<list>> for Some and <<>> for None
DirectoryList(kind, b, p, size) ==
  IF ~(size # W32(0, 0))
  THEN Try(ParseListDirectoryStruct(kind, b, p, size, <<>>), LAMBDA list :
       Ok(<<list.val>>, list.pos))
  ELSE Ok(<<>>, p)

\* <AnnotationsDirectoryItem as Parse>::parse; `at` is the cursor after align(4)
AnnotationsDirectoryItemParse(b, p) ==
  Try(U32(b, Align(p, 4)), LAMBDA class_annotations_off :
  Try(ReadU32s(b, class_annotations_off.pos, 3, <<>>), LAMBDA sizes :
  Try(DirectoryList("FieldAnnotation", b, sizes.pos, sizes.val[1]), LAMBDA field :
  Try(DirectoryList("MethodAnnotation", b, field.pos, sizes.val[2]), LAMBDA method :
  Try(DirectoryList("ParameterAnnotation", b, method.pos, sizes.val[3]), LAMBDA parameter :
  Ok([at |-> Align(p, 4),
      class_annotations_off |-> class_annotations_off.val,
      fields_size |-> sizes.val[1],
      annotated_methods_size |-> sizes.val[2],
      annotated_parameters_size |-> sizes.val[3],
      field_annotations |-> field.val,
      method_annotations |-> method.val,
      parameter_annotations |-> parameter.val], parameter.pos))))))

\* n times `parser.parse()?` of a Uleb128, one after the other
RECURSIVE ReadUleb128s(_, _, _, _)
ReadUleb128s(b, p, n, acc) ==
  IF Len(acc) = n THEN Ok(acc, p)
  ELSE Try(Uleb128(b, p), LAMBDA r : ReadUleb128s(b, r.pos, n, Append(acc, r.val)))

\* EncodedField: parse_struct_default!(EncodedField { field_idx_diff, access_flags })
EncodedFieldParse(b, p) ==
  Try(ReadUleb128s(b, p, 2, <<>>), LAMBDA r :
  Ok([field_idx_diff |-> r.val[1], access_flags |-> r.val[2]], r.pos))

\* EncodedMethod: parse_struct_default!(EncodedMethod { method_idx_diff,
\* access_flags, code_off })
EncodedMethodParse(b, p) ==
  Try(ReadUleb128s(b, p, 3, <<>>), LAMBDA r :
  Ok([method_idx_diff |-> r.val[1], access_flags |-> r.val[2], code_off |-> r.val[3]],
     r.pos))

\* Parser::parse_list::<EncodedField>(len)
RECURSIVE ParseListEncodedField(_, _, _, _)
ParseListEncodedField(b, p, len, acc) ==
  IF ~W32Less(W32OfInt(Len(acc)), len) THEN Ok(acc, p)
  ELSE Try(EncodedFieldParse(b, p), LAMBDA r :
       ParseListEncodedField(b, r.pos, len, Append(acc, r.val)))

\* Parser::parse_list::<EncodedMethod>(len)
RECURSIVE ParseListEncodedMethod(_, _, _, _)
ParseListEncodedMethod(b, p, len, acc) ==
  IF ~W32Less(W32OfInt(Len(acc)), len) THEN Ok(acc, p)
  ELSE Try(EncodedMethodParse(b, p), LAMBDA r :
       ParseListEncodedMethod(b, r.pos, len, Append(acc, r.val)))

\* <ClassDataItem as Parse>::parse: the four sizes, then the four lists in
\* the order of the struct expression
ClassDataItemParse(b, p) ==
  Try(ReadUleb128s(b, p, 4, <<>>), LAMBDA sizes :
  Try(ParseListEncodedField(b, sizes.pos, sizes.val[1], <<>>), LAMBDA static_fields :
  Try(ParseListEncodedField(b, static_fields.pos, sizes.val[2], <<>>),
      LAMBDA instance_fields :
  Try(ParseListEncodedMethod(b, instance_fields.pos, sizes.val[3], <<>>),
      LAMBDA direct_methods :
  Try(ParseListEncodedMethod(b, direct_methods.pos, sizes.val[4], <<>>),
      LAMBDA virtual_methods :
  Ok([static_fields_size |-> sizes.val[1], instance_fields_size |-> sizes.val[2],
      direct_methods_size |-> sizes.val[3], virtual_methods_size |-> sizes.val[4],
      static_fields |-> static_fields.val, instance_fields |-> instance_fields.val,
      direct_methods |-> direct_methods.val, virtual_methods |-> virtual_methods.val],
     virtual_methods.pos))))))

---------------------------------------------------------------------------
(* One call of an item parser on a byte source (SpecItems).                *)

\* each count of the generated annotations directories ranges over 0..MaxEntries
MaxEntries == 1

\* each size of the generated class data items ranges over 0..MaxMembers
MaxMembers == 2

\* the size of the generated catch handlers ranges over -MaxPairs..MaxPairs
MaxPairs == 2

\* The k-th FieldAnnotation, MethodAnnotation or ParameterAnnotation of a source
DirectoryEntryBytes(k) == U32Bytes(W32(0, k)) \o U32Bytes(W32(0, 112 + 4 * k))

RECURSIVE DirectoryEntriesBytes(_)
DirectoryEntriesBytes(n) ==
  IF n = 0 THEN <<>> ELSE DirectoryEntriesBytes(n - 1) \o DirectoryEntryBytes(n)

\* annotations_directory_item with its three lists one after the other
DirectoryBytes(fields, methods, parameters) ==
  U32Bytes(W32(0, 0)) \o U32Bytes(W32(0, fields)) \o U32Bytes(W32(0, methods))
    \o U32Bytes(W32(0, parameters))
    \o DirectoryEntriesBytes((fields + methods) + parameters)

\* The directories, whole and without their last bytes
DirectoryInputs(entries) ==
  {SubSeq(DirectoryBytes(f, m, a), 1, Len(DirectoryBytes(f, m, a)) - cut) :
     f \in 0..entries, m \in 0..entries, a \in 0..entries, cut \in {0, 1, 8, 9}}

\* SLEB128 of a size between -64 and 63, and of i32::MIN
SizeBytes(n) ==
  IF n = MinI32 THEN <<128, 128, 128, 128, 120>>
  ELSE IF n < 0 THEN <<128 + n>> ELSE <<n>>

\* ULEB128 values of one and of two bytes
PairStreams == {<<1, 2, 3, 4, 5, 6, 7, 8>>, <<129, 1, 0, 130, 2, 5, 7, 131, 3, 9>>}

\* encoded_catch_handler: the size and what follows it, cut at every length
CatchHandlerInputs(pairs) ==
  UNION {{SizeBytes(n) \o SubSeq(s, 1, k) :
            n \in ((0 - pairs)..pairs) \cup {MinI32}, k \in 0..Len(s)} :
         s \in PairStreams}

\* The deltas of the lists of a class_data_item: the k-th element of every
\* list has the delta d[k]
DeltaPatterns(members) ==
  {[k \in 1..members |-> 1], [k \in 1..members |-> IF k = 1 THEN 0 ELSE 1],
   [k \in 1..members |-> IF k = 2 THEN 0 ELSE k], [k \in 1..members |-> 0]}

RECURSIVE EncodedFieldsBytes(_, _)
EncodedFieldsBytes(n, d) ==
  IF n = 0 THEN <<>> ELSE EncodedFieldsBytes(n - 1, d) \o <<d[n], 1>>

RECURSIVE EncodedMethodsBytes(_, _)
EncodedMethodsBytes(n, d) ==
  IF n = 0 THEN <<>> ELSE EncodedMethodsBytes(n - 1, d) \o <<d[n], 1, 0>>

ClassDataBytes(sf, inf, dm, vrt, d) ==
  <<sf, inf, dm, vrt>> \o EncodedFieldsBytes(sf, d) \o EncodedFieldsBytes(inf, d)
    \o EncodedMethodsBytes(dm, d) \o EncodedMethodsBytes(vrt, d)

\* The class data items, whole and without their last byte
ClassDataInputs(members) ==
  {SubSeq(ClassDataBytes(sf, inf, dm, vrt, d), 1, Len(ClassDataBytes(sf, inf, dm, vrt, d)) - cut) :
     sf \in 0..members, inf \in 0..members, dm \in 0..members, vrt \in 0..members,
     d \in DeltaPatterns(members), cut \in {0, 1}}

InitItems ==
  /\ build \in {bld \in Builds : ~bld.trace}
  /\ \/ /\ buf \in DirectoryInputs(MaxEntries) \cup CatchHandlerInputs(MaxPairs)
                     \cup ClassDataInputs(MaxMembers)
        /\ pos = 0
     \/ /\ buf \in {<<0, 0, 0, 0>> \o s : s \in DirectoryInputs(MaxEntries)}
        /\ pos \in 1..4
  /\ ci = CodeItemIdle
  /\ sp = [pc |-> "idle"]
  /\ wo = [pc |-> "idle"]
  /\ vm = [pc |-> "idle"]
  /\ df = [pc |-> "idle"]
  /\ rd = ReaderReady

\* parser.parse::<AnnotationsDirectoryItem>()
CallAnnotationsDirectoryItemParse ==
  /\ rd.pc = "ready"
  /\ \E r \in {AnnotationsDirectoryItemParse(buf, pos)} :
       /\ rd' = ReaderCalled("AnnotationsDirectoryItem::parse", pos, r)
       /\ pos' = r.pos
  /\ UNCHANGED <<build, buf, ci, sp, wo, vm, df>>

\* parser.parse::<ClassDataItem>()
CallClassDataItemParse ==
  /\ rd.pc = "ready"
  /\ \E r \in {ClassDataItemParse(buf, pos)} :
       /\ rd' = ReaderCalled("ClassDataItem::parse", pos, r)
       /\ pos' = r.pos
  /\ UNCHANGED <<build, buf, ci, sp, wo, vm, df>>

\* parser.parse::<EncodedCatchHandler>()
CallEncodedCatchHandlerParse ==
  /\ rd.pc = "ready"
  /\ \E r \in {EncodedCatchHandlerParse(buf, pos, build)} :
       /\ rd' = ReaderCalled("EncodedCatchHandler::parse", pos, r)
       /\ pos' = r.pos
  /\ UNCHANGED <<build, buf, ci, sp, wo, vm, df>>

NextItems ==
  \/ CallAnnotationsDirectoryItemParse
  \/ CallClassDataItemParse
  \/ CallEncodedCatchHandlerParse

SpecItems == InitItems /\ [][NextItems]_vars

---------------------------------------------------------------------------
(* Parser::align over the whole range of the cursor (SpecAlign).  The      *)
(* cursor of this specification is a u32 in limbs, as get_offset() gives   *)
(* it, so that it can lie near 2^32; no byte of the source is looked at.   *)

\* the alignments of the generated calls range over 1..MaxAlignment
MaxAlignment == 8

\* u32 % n for a small n
W32Mod(w, n) == ((w.hi % n) * (Limb % n) + (w.lo % n)) % n

\* u32 - k for a small k that is not above the u32
W32Sub(w, k) ==
  IF w.lo >= k THEN W32(w.hi, w.lo - k) ELSE W32(w.hi - 1, (w.lo + Limb) - k)

\* `offset - align + alignment` and set_offset: the sum is a u32
AlignTo(offset, align, alignment, bld) ==
  IF W32Add(W32Sub(offset, align), W32OfInt(alignment)).ovf /\ bld.overflow_checks
  THEN Panic("attempt to add with overflow", offset)
  ELSE Ok(<<>>, W32Add(W32Sub(offset, align), W32OfInt(alignment)).val)

\* Parser::align(alignment) with the cursor at offset
AlignCursor(offset, alignment, bld) ==
  IF W32Mod(offset, alignment) # 0
  THEN AlignTo(offset, W32Mod(offset, alignment), alignment, bld)
  ELSE Ok(<<>>, offset)

\* Cursors at the start of a source, around 2^16 and below 2^32, as
\* `parser.offset(n)` sets them
AlignCursors(alignment) ==
  {W32(0, k) : k \in 0..(2 * alignment)}
    \cup {W32(0, Limb - k) : k \in 1..alignment}
    \cup {W32(1, k) : k \in 0..alignment}
    \cup {W32(Limb - 1, Limb - k) : k \in 1..(2 * alignment)}

InitAlign ==
  /\ build \in {bld \in Builds : ~bld.trace}
  /\ buf = OffsetBytes
  /\ pos \in AlignCursors(MaxAlignment)
  /\ ci = CodeItemIdle
  /\ sp = [pc |-> "idle"]
  /\ wo = [pc |-> "idle"]
  /\ vm = [pc |-> "idle"]
  /\ df = [pc |-> "idle"]
  /\ rd = ReaderReady

\* parser.align(alignment)
CallAlignCursor ==
  /\ rd.pc = "ready"
  /\ \E alignment \in 1..MaxAlignment :
       \E r \in {AlignCursor(pos, alignment, build)} :
         /\ rd' = [pc |-> "called", fn |-> "align", alignment |-> alignment,
                   at |-> pos, res |-> r]
         /\ pos' = r.pos
  /\ UNCHANGED <<build, buf, ci, sp, wo, vm, df>>

NextAlign == CallAlignCursor

SpecAlign == InitAlign /\ [][NextAlign]_vars

---------------------------------------------------------------------------
(* Properties of DexFile::parse (SpecFile).                                *)

\* C1: parsing a DexFile has exactly two outcomes, a complete DexFile or one
\* error: parse never ends in any other way (a panic), a returned DexFile has
\* every section, and a failed parse has returned no DexFile.
C1_TwoOutcomes ==
  /\ df.pc \in {"run", "done", "failed"}
  /\ df.pc = "done" =>
       /\ Len(df.returned) = 1
       /\ df.returned[1].fields = DexSteps
       /\ Len(df.returned[1].code) = df.size
  /\ df.pc = "failed" => df.returned = <<>> /\ Len(df.error) = 1

---------------------------------------------------------------------------
(* Properties of Instruction::parse and CodeItem::parse (Spec).            *)

\* The size in 16-bit code units of each format that is no payload.
C2_CodeUnits(f) ==
  CASE f \in {"Format10x", "Format10t", "Format11n", "Format11x", "Format12x"} -> 1
    [] f \in {"Format20bc", "Format20t", "Format21c", "Format21ih", "Format21lh",
              "Format21s", "Format21t", "Format22b", "Format22c", "Format22cs",
              "Format22s", "Format22t", "Format22x", "Format23x"} -> 2
    [] f \in {"Format30t", "Format31c", "Format31i", "Format31t", "Format32x",
              "Format35c", "Format35mi", "Format35ms", "Format3rc", "Format3rmi",
              "Format3rms"} -> 3
    [] f \in {"Format45cc", "Format4rcc"} -> 4
    [] f = "Format51l" -> 5

\* C2: for every opcode whose format is no payload, a successful
\* Instruction::parse started at cursor p leaves the cursor at p + 2 * k, k
\* being the size of the format in code units; nop and return-void advance by 2.
C2_CursorAdvance ==
  \A i \in 1..Len(ci.last) :
    LET call == ci.last[i]
    IN  (call.res.st = "ok" /\ ~FormatPayload(call.res.val.op.format)) =>
          /\ call.res.pos = call.at + 2 * C2_CodeUnits(call.res.val.op.format)
          /\ ci.pc = "insns" => pos = call.res.pos
          /\ call.res.val.op.name \in {"Nop", "ReturnVoid"} => call.res.pos = call.at + 2

\* C2 witness: a nop has been decoded from `00 00` and the cursor is 2 further.
C2_NopDecoded ==
  /\ ci.pc = "insns"
  /\ Len(ci.last) = 1
  /\ ci.last[1].res.st = "ok"
  /\ ci.last[1].res.val.op.name = "Nop"
  /\ ByteAt(buf, ci.last[1].at) = 0
  /\ ByteAt(buf, ci.last[1].at + 1) = 0
  /\ pos = ci.last[1].at + 2

RECURSIVE C3_SumOfSizes(_)
C3_SumOfSizes(n) ==
  IF n = 0 THEN 0
  ELSE C3_SumOfSizes(n - 1)
       + (ci.ends[n] - (IF n = 1 THEN ci.start_offset ELSE ci.ends[n - 1])) \div 2

\* C3: for every CodeItem whose parse succeeds, the sizes in code units of
\* the decoded instructions add up to insns_size, and the instruction loop
\* has ended with the cursor exactly at start + insns_size * 2.
C3_SizesAddUp ==
  ci.pc = "done" =>
    /\ W32OfInt(C3_SumOfSizes(Len(ci.ends))) = ci.header.insns_size
    /\ W32OfInt(ci.tail[1].loop_end - ci.start_offset) = W32Double(ci.header.insns_size).val
    /\ ~W32Double(ci.header.insns_size).ovf

\* C4: the opcode value is op_lo, or op_hi << 8 when op_lo is 0 (0x0100,
\* 0x0200, 0x0300 select the payloads; for 0 the cursor goes back one byte and
\* nop takes the second zero as its filler byte); the parse fails with the
\* unknown-opcode error, producing no instruction, exactly when that value has
\* no entry in the value-to-opcode map.
C4_OpcodeValue ==
  \A i \in 1..Len(ci.last) :
    LET call == ci.last[i]
        op_lo == ByteAt(buf, call.at)
        op_hi == ByteAt(buf, call.at + 1)
        value == IF op_lo # 0 THEN op_lo ELSE op_hi * 256
        unknown == call.res.st = "err" /\ call.res.val = "unknown opcode"
    IN  (Avail(buf, call.at, 1) /\ (op_lo # 0 \/ Avail(buf, call.at, 2))) =>
          /\ unknown <=> value \notin DOMAIN VALUE_TO_OPCODE
          /\ unknown => ci.pc = "failed"
          /\ call.res.st = "ok" =>
               /\ call.res.val.op.value = value
               /\ value = 0 => call.res.val.op.name = "Nop" /\ call.res.pos = call.at + 2
               /\ value = 256 => call.res.val.variant = "PackedSwitchPayload"
               /\ value = 512 => call.res.val.variant = "SparseSwitchPayload"
               /\ value = 768 => call.res.val.variant = "FillArrayDataPayload"

\* C4 witness: `00 04` (value 0x0400, which no opcode has) has been refused
\* with the unknown-opcode error.
C4_UnknownPayload ==
  /\ ci.pc = "failed"
  /\ Len(ci.last) = 1
  /\ ci.last[1].res = Fail("unknown opcode", ci.last[1].at + 2)
  /\ ByteAt(buf, ci.last[1].at) = 0
  /\ ByteAt(buf, ci.last[1].at + 1) = 4

\* C8: every nibble operand holds the bits that the documented layout gives
\* to its letter.  For B|A|op, A is the low and B the high nibble of the byte
\* after the opcode; for A|G|op BBBB F|E|D|C, A is the high and G the low
\* nibble of that byte, and C, D, E, F are bits 0-3, 4-7, 8-11, 12-15 of the
\* third code unit.  The operands are in the order of the instruction's
\* tuple: (A, B, ..) and (A, G, BBBB, F, E, D, C, ..).
C8_NibbleLayout ==
  \A i \in 1..Len(ci.last) :
    LET call == ci.last[i]
        args == call.res.val.args
        byte1 == ByteAt(buf, call.at + 1)
        unit3 == U16At(buf, call.at + 4)
    IN  call.res.st = "ok" =>
          /\ call.res.val.op.format \in {"Format12x", "Format11n", "Format22t",
                                          "Format22s", "Format22c", "Format22cs"} =>
               /\ args[1] = byte1 % 16
               /\ args[2] = byte1 \div 16
          /\ call.res.val.op.format \in {"Format35c", "Format35ms", "Format35mi",
                                          "Format45cc"} =>
               /\ args[1] = byte1 \div 16
               /\ args[2] = byte1 % 16
               /\ args[7] = unit3 % 16
               /\ args[6] = (unit3 \div 16) % 16
               /\ args[5] = (unit3 \div 256) % 16
               /\ args[4] = unit3 \div 4096

---------------------------------------------------------------------------
(* Properties of with_offset and parse_with_offset (SpecOff).              *)

\* The little-endian value of the given kind at the offset
C5_ValueAt(kind, offset) ==
  CASE kind = "u8" -> buf[offset + 1]
    [] kind = "u16" -> buf[offset + 1] + 256 * buf[offset + 2]
    [] kind = "u32" -> W32(buf[offset + 3] + 256 * buf[offset + 4],
                           buf[offset + 1] + 256 * buf[offset + 2])

C5_Width(kind) == CASE kind = "u8" -> 1 [] kind = "u16" -> 2 [] kind = "u32" -> 4

\* C5: parse_with_offset(off) and with_offset(off, f) called with the cursor
\* at p: for off = 0 they return None and the cursor is still p; for
\* 0 < off < 112 they fail with the out-of-bounds error and the cursor is still
\* p; for off >= 112 and a successful inner parse they return Some(the value
\* decoded at byte off) and the cursor is p again.
C5_OffsetCalls ==
  \A i \in 1..Len(wo.last) :
    LET call == wo.last[i]
    IN  call.fn \in {"with_offset", "parse_with_offset"} =>
          /\ call.offset = 0 => call.res = Ok(<<>>, call.at) /\ pos = call.at
          /\ (0 < call.offset /\ call.offset < 112) =>
               call.res = Fail("offset out of bounds", call.at) /\ pos = call.at
          /\ (call.offset >= 112 /\ call.offset + C5_Width(call.kind) <= Len(buf)) =>
               /\ call.res = Ok(<<C5_ValueAt(call.kind, call.offset)>>, call.at)
               /\ pos = call.at

\* C5 witness: parse_with_offset::<u16>(113) called with the cursor at 2 has
\* returned Some and the cursor is 2.
C5_SomeAndBack ==
  /\ Len(wo.last) = 1
  /\ wo.last[1].fn = "parse_with_offset"
  /\ wo.last[1].kind = "u16"
  /\ wo.last[1].offset = 113
  /\ wo.last[1].at = 2
  /\ wo.last[1].res.st = "ok"
  /\ Len(wo.last[1].res.val) = 1
  /\ pos = 2

---------------------------------------------------------------------------
(* Properties of the opcode table and its reverse map (SpecMap).           *)

\* C6: round trip through the reverse map: for every opcode O of
\* Opcode::all(), VALUE_TO_OPCODE[O.value()] = O.
C6_RoundTrip ==
  \A i \in 1..Len(vm.looked) : vm.looked[i].found = vm.looked[i].opcode

\* C7: any two distinct opcodes of the table that have the same value are
\* one ODEX_ONLY opcode and one that is not; no value is shared by two
\* ODEX-only opcodes, by two standard opcodes or by more than two opcodes.
\* (Stated of the opcodes that gen_value_map has inserted so far.)
C7_SharedValues ==
  \A i \in 1..(vm.i - 1) :
    \A j \in 1..(i - 1) :
      AllOpcodes[i].value = AllOpcodes[j].value =>
        /\ AllOpcodes[i].odex # AllOpcodes[j].odex
        /\ \A k \in 1..(j - 1) : AllOpcodes[k].value # AllOpcodes[i].value

---------------------------------------------------------------------------
(* Properties of parse_string (SpecStr).                                   *)

\* The bytes of the code unit that the last iteration started at
C9_Byte(call, k) == ByteAt(buf, call.start + k)

C9_BadUtf8(call) == call.res.st = "err" /\ call.res.val = "bad_utf8"

\* C9: parse_string(L) on success has produced exactly L UTF-16 code units,
\* each from a form of one, two or three bytes; it fails with the bad-UTF-8
\* error on a lone 0x00, on a two-byte form of a non-zero value below 0x80,
\* on a three-byte form of a value below 0x800 and on a lead byte 0x80-0xBF
\* or 0xF0-0xFF; the form `C0 80` is accepted and yields the code unit 0.
C9_Mutf8Decoding ==
  /\ sp.pc = "done" =>
       /\ Len(sp.chars) = sp.len
       /\ Len(sp.bytes) >= sp.len
       /\ Len(sp.bytes) <= 3 * sp.len
       /\ sp.bytes = SubSeq(buf, 1, pos)
  /\ \A i \in 1..Len(sp.last) :
       LET call == sp.last[i]
           v0 == C9_Byte(call, 0)
           v1 == C9_Byte(call, 1)
           v2 == C9_Byte(call, 2)
       IN  Avail(buf, call.start, 1) =>
             /\ call.res.st = "ok" => call.res.pos - call.start \in 1..3
             /\ v0 = 0 => C9_BadUtf8(call)
             /\ (v0 \in 128..191 \/ v0 \in 240..255) => C9_BadUtf8(call)
             /\ (v0 \in 192..223 /\ Avail(buf, call.start, 2)
                 /\ (v0 % 32) * 64 + (v1 % 64) \in 1..127) => C9_BadUtf8(call)
             /\ (v0 \in 224..239 /\ Avail(buf, call.start, 3)
                 /\ (v0 % 16) * 4096 + (v1 % 64) * 64 + (v2 % 64) < 2048) =>
                  C9_BadUtf8(call)
             /\ (v0 = 192 /\ Avail(buf, call.start, 2) /\ v1 = 128) =>
                  /\ call.res.st = "ok"
                  /\ call.res.val.out = 0
                  /\ call.res.pos = call.start + 2

\* C9 witness: parse_string(2) has returned the code units 0x0000 (from
\* `C0 80`) and 0x0041.
C9_ZeroAccepted ==
  /\ sp.pc = "done"
  /\ sp.len = 2
  /\ sp.chars = <<0, 65>>
  /\ sp.bytes = <<192, 128, 65>>

\* The MUTF-8 form of a UTF-16 code unit
C10_Encode(c) ==
  IF c = 0 THEN <<192, 128>>
  ELSE IF c < 128 THEN <<c>>
  ELSE IF c < 2048 THEN <<192 + (c \div 64), 128 + (c % 64)>>
  ELSE <<224 + (c \div 4096), 128 + ((c \div 64) % 64), 128 + (c % 64)>>

RECURSIVE C10_EncodeAll(_, _)
C10_EncodeAll(chars, i) ==
  IF i > Len(chars) THEN <<>> ELSE C10_Encode(chars[i]) \o C10_EncodeAll(chars, i + 1)

\* C10: MUTF-8 round trip: whenever parse_string succeeds, encoding the
\* decoded UTF-16 code units back to MUTF-8 yields exactly the raw bytes that
\* parse_string captured and returned.
C10_RoundTrip ==
  sp.pc = "done" => C10_EncodeAll(sp.chars, 1) = sp.bytes

---------------------------------------------------------------------------
(* Properties of uleb128 (SpecLeb).                                        *)

\* The number of bytes of the encoding at the start of the source: up to
\* the first byte without bit 7; 0 when the source ends before that.
C11_Length ==
  IF \E n \in 1..Len(buf) : buf[n] < 128
  THEN CHOOSE n \in 1..Len(buf) : buf[n] < 128 /\ \A m \in 1..(n - 1) : buf[m] >= 128
  ELSE 0

\* The 7-bit group of the i-th byte
C11_Group(i) == IF i <= C11_Length THEN buf[i] % 128 ELSE 0

\* The groups hold no bit above bit 31
C11_Fits == C11_Group(5) < 16 /\ \A i \in 6..C11_Length : C11_Group(i) = 0

\* The groups put together least significant first, as a u32
C11_Value ==
  W32(C11_Group(3) \div 4 + C11_Group(4) * 32 + C11_Group(5) * 4096,
      C11_Group(1) + C11_Group(2) * 128 + (C11_Group(3) % 4) * 16384)

\* C11: uleb128() reads bytes while bit 7 is set and accumulates the 7-bit
\* groups least significant first; it fails when the value does not fit in
\* 32 bits, and it fails for every encoding longer than 5 bytes, those whose
\* extra bytes carry only zero bits included.
C11_Uleb128 ==
  (rd.pc = "called" /\ rd.fn = "uleb128" /\ C11_Length > 0) =>
    /\ rd.res.st = "ok" =>
         /\ rd.res.val = C11_Value
         /\ pos = rd.at + C11_Length
    /\ ~C11_Fits => rd.res.st = "err"
    /\ C11_Length > 5 => rd.res.st = "err"

---------------------------------------------------------------------------
(* Properties of EncodedValue::parse (SpecValue).                          *)

\* The value_type codes of the DEX format with the variant of each: byte,
\* short, char, int, long, float, double, method_type, method_handle,
\* string, type, field, method, enum, array, annotation, null, boolean.
C12_Types ==
  [t \in {0, 2, 3, 4, 6, 16, 17, 21, 22, 23, 24, 25, 26, 27, 28, 29, 30, 31} |->
     CASE t = 0 -> "Byte" [] t = 2 -> "Short" [] t = 3 -> "Char" [] t = 4 -> "Int"
       [] t = 6 -> "Long" [] t = 16 -> "Float" [] t = 17 -> "Double"
       [] t = 21 -> "MethodType" [] t = 22 -> "MethodHandle" [] t = 23 -> "String"
       [] t = 24 -> "Type" [] t = 25 -> "Field" [] t = 26 -> "Method"
       [] t = 27 -> "Enum" [] t = 28 -> "Array" [] t = 29 -> "Annotation"
       [] t = 30 -> "Null" [] t = 31 -> "Boolean"]

\* The value_arg table: the largest value_arg of each kind of value
C12_MaxArg(variant) ==
  CASE variant \in {"Byte", "Array", "Annotation", "Null"} -> 0
    [] variant \in {"Short", "Char", "Boolean"} -> 1
    [] variant \in {"Int", "Float", "MethodType", "MethodHandle", "String", "Type",
                    "Field", "Method", "Enum"} -> 3
    [] variant \in {"Long", "Double"} -> 7

\* The header byte satisfies the table
C12_HeaderAllowed(header) ==
  /\ header % 32 \in DOMAIN C12_Types
  /\ header \div 32 <= C12_MaxArg(C12_Types[header % 32])

\* A decoded value and the values nested in it, each as its variant and the
\* cursor of its header byte
RECURSIVE C12_Values(_)
C12_Values(v) ==
  {[variant |-> v.variant, at |-> v.at]}
  \cup (IF v.variant = "Array"
        THEN UNION {C12_Values(v.val.values[i]) : i \in 1..Len(v.val.values)}
        ELSE IF v.variant = "Annotation"
        THEN UNION {C12_Values(v.val.elements[i].value) : i \in 1..Len(v.val.elements)}
        ELSE {})

\* C12: every EncodedValue that is decoded, nested ones included, satisfies
\* the value_arg table; EncodedValue::parse returns an error when value_arg
\* is outside the range of its value_type and when value_type is not one of
\* the 18 codes.
C12_ValueArgTable ==
  (rd.pc = "called" /\ rd.fn = "EncodedValue::parse") =>
    /\ rd.res.st = "ok" =>
         \A e \in C12_Values(rd.res.val) :
           /\ C12_HeaderAllowed(buf[e.at + 1])
           /\ e.variant = C12_Types[buf[e.at + 1] % 32]
    /\ (Len(buf) >= 1 /\ ~C12_HeaderAllowed(buf[1])) =>
         /\ rd.res.st = "err"
         /\ rd.res.val \in {"value_arg", "invalid value_type"}
         /\ rd.res.val = "invalid value_type" <=> buf[1] % 32 \notin DOMAIN C12_Types

\* C12 witness: the array `1C 01 20 FF`, whose one value is a byte with
\* value_arg 1, has been refused.
C12_NestedArgRefused ==
  /\ rd.pc = "called"
  /\ rd.fn = "EncodedValue::parse"
  /\ buf = <<28, 1, 32, 255>>
  /\ rd.res = Fail("value_arg", 3)

\* The first k bytes of the payload of the value decoded, least significant
\* first, as an unsigned number
RECURSIVE C13_Unsigned(_)
C13_Unsigned(k) ==
  IF k = 0 THEN 0 ELSE buf[rd.at + 1 + k] * (256 ^ (k - 1)) + C13_Unsigned(k - 1)

\* The same bytes as a signed number: bit 7 of the last byte is the sign
C13_Signed(k) ==
  (IF buf[rd.at + 1 + k] >= 128 THEN buf[rd.at + 1 + k] - 256 ELSE buf[rd.at + 1 + k])
    * (256 ^ (k - 1)) + C13_Unsigned(k - 1)

\* C13: the payloads of signed values are widened with sign extension: a
\* byte 0xFF is Byte(-1), and a short, int or long given in value_arg + 1
\* bytes with bit 7 of the last byte set is negative; a char is zero-extended.
C13_SignExtension ==
  (rd.pc = "called" /\ rd.fn = "EncodedValue::parse" /\ rd.res.st = "ok") =>
    LET value_arg == buf[rd.at + 1] \div 32
        v == rd.res.val
    IN  /\ v.variant = "Byte" => v.val = C13_Signed(1)
        /\ v.variant \in {"Short", "Int"} => v.val = C13_Signed(value_arg + 1)
        /\ v.variant = "Long" => v.val.negative = (buf[rd.at + 2 + value_arg] >= 128)
        /\ v.variant = "Char" => v.val = C13_Unsigned(value_arg + 1)

---------------------------------------------------------------------------
(* Header::parse                                                            *)

C17_Called == rd.pc = "called" /\ rd.fn = "Header::parse" /\ rd.at = 0

\* The source holds a whole header_item
C17_Whole == Len(buf) >= 112

C17_BadMagic == SubSeq(buf, 1, 4) # <<100, 101, 120, 10>> \/ buf[8] # 0

\* The endian tag is at offset 40
C17_BadEndian ==
  SubSeq(buf, 41, 44) \notin {<<120, 86, 52, 18>>, <<18, 52, 86, 120>>}

C17_Digit(c) == c \in 48..57

\* Bytes 4..7 hold a number that is accepted: three digits, or `+` and two
C17_Number ==
  /\ buf[5] = 43 \/ C17_Digit(buf[5])
  /\ C17_Digit(buf[6])
  /\ C17_Digit(buf[7])

C17_Decimal ==
  (IF buf[5] = 43 THEN 0 ELSE (buf[5] - 48) * 100) + (buf[6] - 48) * 10 + (buf[7] - 48)

\* C17 as it is worded: on a whole header, Header::parse at offset 0 fails on a
\* wrong magic, fails on a wrong endian tag, and in every other case succeeds
\* with the number of bytes 4..7 as format_version and the cursor at 112.
C17_OtherwiseSucceeds ==
  (C17_Called /\ C17_Whole) =>
    /\ C17_BadMagic => rd.res.st = "err"
    /\ C17_BadEndian => rd.res.st = "err"
    /\ (~C17_BadMagic /\ ~C17_BadEndian) =>
         /\ rd.res.st = "ok"
         /\ pos = 112
         /\ C17_Number => rd.res.val.format_version = C17_Decimal

\* C17, amended: on a whole header, Header::parse at offset 0 fails on a wrong
\* magic, fails when bytes 4..7 are not a number (three decimal digits, or a
\* `+` and two digits), fails on a wrong endian tag, and in every other case
\* succeeds with that number as format_version and the cursor at 112.
C17_HeaderParse ==
  (C17_Called /\ C17_Whole) =>
    /\ C17_BadMagic => rd.res.st = "err"
    /\ ~C17_Number => rd.res.st = "err"
    /\ C17_BadEndian => rd.res.st = "err"
    /\ (~C17_BadMagic /\ C17_Number /\ ~C17_BadEndian) =>
         /\ rd.res.st = "ok"
         /\ pos = 112
         /\ rd.res.val.format_version = C17_Decimal

\* `30 33 35` has given version 35 and the cursor is at 112
C17_Version35 ==
  /\ C17_Called
  /\ rd.res.st = "ok"
  /\ SubSeq(buf, 5, 7) = <<48, 51, 53>>
  /\ rd.res.val.format_version = 35
  /\ pos = 112

\* C18: every accepted Header has header_size 0x70 and three ASCII decimal
\* digits in bytes 4, 5 and 6 of the magic.
C18_AcceptedHeader ==
  (C17_Called /\ rd.res.st = "ok") =>
    /\ rd.res.val.header_size = W32(0, 112)
    /\ C17_Digit(buf[5]) /\ C17_Digit(buf[6]) /\ C17_Digit(buf[7])

---------------------------------------------------------------------------
(* Format::size and Format::payload                                         *)

\* The first digit of the name of a format: its number of 16-bit code units
C20_CodeUnits ==
  [f \in Formats |->
     CASE f \in {"Format10t", "Format10x", "Format11n", "Format11x", "Format12x"} -> 1
       [] f \in {"Format30t", "Format31c", "Format31i", "Format31t", "Format32x",
                 "Format35c", "Format35mi", "Format35ms", "Format3rc", "Format3rmi",
                 "Format3rms"} -> 3
       [] f \in {"Format45cc", "Format4rcc"} -> 4
       [] f = "Format51l" -> 5
       [] f \in {"ArrayPayload", "PackedSwitchPayload", "SparseSwitchPayload",
                 "UnresolvedOdexInstruction"} -> 0
       [] OTHER -> 2]

C20_Payloads == {"ArrayPayload", "PackedSwitchPayload", "SparseSwitchPayload"}

\* C20: size() is the number of 16-bit code units of the format (1 to 5 by
\* the first digit of its name), it is -1 exactly for the formats whose
\* payload() is true, and payload() is true exactly for the three payloads.
C20_SizeAndPayload ==
  /\ (rd.pc = "called" /\ rd.fn = "Format::size") =>
       /\ C20_CodeUnits[rd.at.format] > 0 => rd.res = C20_CodeUnits[rd.at.format]
       /\ rd.res = -1 <=>
            (IF rd.at.module = "dex::asm" THEN FormatPayload(rd.at.format)
             ELSE ParserFormatPayload(rd.at.format))
  /\ (rd.pc = "called" /\ rd.fn = "Format::payload") =>
       (rd.res <=> rd.at.format \in C20_Payloads)

---------------------------------------------------------------------------
(* The filler byte of the formats 10x, 20t, 30t and 32x                     *)

\* return-void (10x), goto/16 (20t), goto/32 (30t), move/16, move-wide/16 and
\* move-object/16 (32x)
C19_FillerOpcodes == {14, 41, 42, 3, 6, 9}

\* The last Instruction::parse met an opcode with a filler byte that is not 0
C19_NonZeroFiller ==
  /\ ci.pc \notin {"idle", "start"}
  /\ Len(ci.last) = 1
  /\ Avail(buf, ci.last[1].at, 2)
  /\ ByteAt(buf, ci.last[1].at) \in C19_FillerOpcodes
  /\ ByteAt(buf, ci.last[1].at + 1) # 0

\* C19: a filler byte that is not 0 makes Instruction::parse return an error
\* to its caller (strict) or is passed over and decoding continues (lenient);
\* in neither case does the decoder abort the process.
C19_NoAbort ==
  C19_NonZeroFiller =>
    /\ ci.last[1].res.st \in {"err", "ok"}
    /\ ci.pc # "panicked"

---------------------------------------------------------------------------
(* The DexFile returned by DexFile::parse                                   *)

C14_Returned == rd.pc = "called" /\ rd.fn = "DexFile::parse" /\ rd.res.st = "ok"

\* The items of the returned map list with a type code
C14_Items(t) ==
  {i \in 1..Len(rd.res.val.map_list.list) : rd.res.val.map_list.list[i].item_type = t}

\* C14: the map list of a returned DexFile has exactly one HeaderItem, at
\* offset 0, exactly one MapList item, at header.map_off, and no type code
\* twice.
C14_MapListShape ==
  C14_Returned =>
    /\ Cardinality(C14_Items("HeaderItem")) = 1
    /\ \A i \in C14_Items("HeaderItem") :
         rd.res.val.map_list.list[i].offset = W32(0, 0)
    /\ Cardinality(C14_Items("MapList")) = 1
    /\ \A i \in C14_Items("MapList") :
         rd.res.val.map_list.list[i].offset = rd.res.val.header.rest.map_off
    /\ \A t \in TypeCodes : Cardinality(C14_Items(t)) <= 1

\* The section types of C15 and the lists of the DexFile they fill
C15_Sections ==
  {"StringIdItem", "TypeIdItem", "ProtoIdItem", "FieldIdItem", "MethodIdItem",
   "ClassDefItem", "CodeItem", "DebugInfoItem", "TypeList", "AnnotationItem",
   "ClassDataItem", "EncodedArrayItem", "AnnotationSetItem", "AnnotationSetRefList",
   "AnnotationsDirectoryItem", "CallSiteIdItem", "MethodHandleItem"}

\* The bytes of an id item
C15_ItemSize(t) == IF t \in {"FieldIdItem", "MethodIdItem"} THEN 8
                   ELSE IF t = "ProtoIdItem" THEN 12 ELSE 4

\* C15: for every section type with a MapItem, the list of the returned
\* DexFile has exactly MapItem.size items, decoded one after the other from
\* MapItem.offset.
C15_SectionLists ==
  C14_Returned =>
    \A t \in C15_Sections : \A i \in C14_Items(t) :
      LET item == rd.res.val.map_list.list[i]
          list == rd.res.val.lists[t]
      IN  /\ W32OfInt(Len(list)) = item.size
          /\ \A k \in 1..Len(list) :
               W32OfInt(list[k].at) = W32Add(item.offset, W32OfInt((k - 1) * C15_ItemSize(t))).val

\* The Idx and Ref fields of the items of the returned DexFile
C16_References ==
  {[ref |-> StructFields[t][f].ref, to |-> StructFields[t][f].to,
    value |-> rd.res.val.lists[t][k].fields[f]] :
     <<t, k, f>> \in {x \in (DOMAIN StructFields) \X (1..MaxIds + 1) \X (1..3) :
                        /\ x[2] <= Len(rd.res.val.lists[x[1]])
                        /\ x[3] <= Len(StructFields[x[1]])}}

\* C16: every index of a returned DexFile is NO_INDEX or less than the
\* number of items it indexes, and every offset is 0 or at least 112.
C16_ValidReferences ==
  C14_Returned =>
    \A r \in C16_References :
      IF r.ref = "Idx"
      THEN \/ r.value = W32(65535, 65535)
           \/ W32Less(r.value, W32OfInt(Len(rd.res.val.lists[r.to])))
      ELSE \/ r.value = W32(0, 0)
           \/ ~W32Less(r.value, W32(0, 112))

---------------------------------------------------------------------------
(* What follows the instructions of a CodeItem.                            *)

\* The end of the padding in the CodeItem returned: the tries are
\* tries_size records of 8 bytes that end at tries_end
C21_PaddingEnd == ci.tail[1].tries_end - 8 * ci.header.tries_size

C21_Padded == ci.header.tries_size > 0 /\ W32Odd(ci.header.insns_size)

\* C21: in every CodeItem returned, the padding is present and 2 bytes long
\* iff tries_size > 0 and insns_size is odd; tries (tries_size of them) and
\* handlers are present iff tries_size > 0, and with tries_size = 0 nothing
\* is read between the instructions and the final alignment; the cursor ends
\* at a multiple of 4, at most 3 bytes beyond the end of the handlers.
C21_AfterInstructions ==
  ci.pc = "done" =>
    /\ Len(ci.tail[1].padding) = (IF C21_Padded THEN 1 ELSE 0)
    /\ C21_PaddingEnd - ci.tail[1].loop_end = (IF C21_Padded THEN 2 ELSE 0)
    /\ Len(ci.tail[1].tries) = (IF ci.header.tries_size > 0 THEN 1 ELSE 0)
    /\ Len(ci.tail[1].handlers) = (IF ci.header.tries_size > 0 THEN 1 ELSE 0)
    /\ ci.header.tries_size > 0 =>
         /\ Len(ci.tail[1].tries[1]) = ci.header.tries_size
         /\ ci.tail[1].handlers_end > ci.tail[1].tries_end
    /\ ci.header.tries_size = 0 => ci.tail[1].handlers_end = ci.tail[1].loop_end
    /\ pos % 4 = 0
    /\ pos - ci.tail[1].handlers_end \in 0..3

\* A CodeItem is returned that has a padding, a try and handlers, and whose
\* last bytes were read for the alignment
C21_PaddedWithTries ==
  /\ ci.pc = "done"
  /\ C21_Padded
  /\ Len(ci.tail[1].padding) = 1
  /\ Len(ci.tail[1].tries) = 1
  /\ pos > ci.tail[1].handlers_end

---------------------------------------------------------------------------
(* The payload pseudo-instructions.                                        *)

\* The instruction the last call of Instruction::parse returned, and the
\* bytes the call moved the cursor by
C22_Payload == ci.last[1].res.val

C22_Consumed == ci.last[1].res.pos - ci.last[1].at

\* element_width * size of an array payload returned, as a u32 product
C22_Product == W32MulU16(C22_Payload.args[1], C22_Payload.args[2])

\* C22: every payload returned by Instruction::parse has moved the cursor by
\* its declared size, the 2 ident bytes included: 8 + 4*size bytes with size
\* targets for a packed switch, 4 + 8*size bytes with size keys and size
\* targets for a sparse switch, and for an array size*element_width data
\* bytes in 2*((size*element_width + 1)/2 + 4) bytes.
C22_DeclaredSize ==
  (ci.last # <<>> /\ ci.last[1].res.st = "ok") =>
    CASE C22_Payload.variant = "PackedSwitchPayload" ->
           /\ Len(C22_Payload.args[3]) = C22_Payload.args[1]
           /\ C22_Consumed = 8 + 4 * C22_Payload.args[1]
      [] C22_Payload.variant = "SparseSwitchPayload" ->
           /\ Len(C22_Payload.args[2]) = C22_Payload.args[1]
           /\ Len(C22_Payload.args[3]) = C22_Payload.args[1]
           /\ C22_Consumed = 4 + 8 * C22_Payload.args[1]
      [] C22_Payload.variant = "FillArrayDataPayload" ->
           /\ ~C22_Product.ovf
           /\ C22_Product.val.hi = 0
           /\ Len(C22_Payload.args[3]) = C22_Product.val.lo
           /\ C22_Consumed = 2 * ((C22_Product.val.lo + 1) \div 2 + 4)
      [] OTHER -> TRUE

---------------------------------------------------------------------------
(* The annotations directory.                                              *)

C23_Returned ==
  /\ rd.pc = "called"
  /\ rd.fn = "AnnotationsDirectoryItem::parse"
  /\ rd.res.st = "ok"

\* A list of the directory returned is there with `size` entries when
\* size is not 0
C23_Present(list, size) ==
  size # W32(0, 0) => (Len(list) = 1 /\ W32OfInt(Len(list[1])) = size)

\* C23: an AnnotationsDirectoryItem returned was read from the next multiple
\* of 4, each of its three lists with a count other than 0 is present with
\* that many entries, and the cursor is 16 + 8 * (the sum of the counts)
\* bytes behind the aligned start.
C23_ListsAndCursor ==
  C23_Returned =>
    /\ rd.res.val.at % 4 = 0
    /\ rd.res.val.at - rd.at \in 0..3
    /\ C23_Present(rd.res.val.field_annotations, rd.res.val.fields_size)
    /\ C23_Present(rd.res.val.method_annotations, rd.res.val.annotated_methods_size)
    /\ C23_Present(rd.res.val.parameter_annotations,
                   rd.res.val.annotated_parameters_size)
    /\ pos = rd.res.val.at + 16
               + 8 * ((rd.res.val.fields_size.lo + rd.res.val.annotated_methods_size.lo)
                      + rd.res.val.annotated_parameters_size.lo)

---------------------------------------------------------------------------
(* The catch handlers.                                                     *)

C24_Returned ==
  /\ rd.pc = "called"
  /\ rd.fn = "EncodedCatchHandler::parse"
  /\ rd.res.st = "ok"

C24_Size == rd.res.val.size

C24_Abs == IF C24_Size < 0 THEN 0 - C24_Size ELSE C24_Size

\* The LEB128 numbers that end between the start of the call and the
\* cursor: one for each byte without the continuation bit
C24_NumbersRead == Cardinality({i \in (rd.at + 1)..pos : buf[i] < 128})

\* C24: an EncodedCatchHandler returned has |size| pairs; it has a
\* catch_all_addr iff size <= 0 and none iff size > 0; and the numbers read
\* for it are the size, two for each pair and the catch_all_addr when there
\* is one, the last of them ending at the cursor.
C24_PairsAndCatchAll ==
  C24_Returned =>
    /\ Len(rd.res.val.handlers) = C24_Abs
    /\ Len(rd.res.val.catch_all_addr) = (IF C24_Size <= 0 THEN 1 ELSE 0)
    /\ C24_NumbersRead = (1 + 2 * C24_Abs) + (IF C24_Size <= 0 THEN 1 ELSE 0)
    /\ pos > rd.at
    /\ buf[pos] < 128

\* Handlers are returned with a negative size, two pairs and a
\* catch_all_addr
C24_CatchAllAfterPairs ==
  /\ C24_Returned
  /\ C24_Size < 0
  /\ Len(rd.res.val.handlers) = 2
  /\ Len(rd.res.val.catch_all_addr) = 1

---------------------------------------------------------------------------
(* The class data.                                                         *)

C25_Returned ==
  /\ rd.pc = "called"
  /\ rd.fn = "ClassDataItem::parse"
  /\ rd.res.st = "ok"

\* The deltas of the four lists of the ClassDataItem returned
C25_Deltas ==
  <<[k \in 1..Len(rd.res.val.static_fields) |->
       rd.res.val.static_fields[k].field_idx_diff],
    [k \in 1..Len(rd.res.val.instance_fields) |->
       rd.res.val.instance_fields[k].field_idx_diff],
    [k \in 1..Len(rd.res.val.direct_methods) |->
       rd.res.val.direct_methods[k].method_idx_diff],
    [k \in 1..Len(rd.res.val.virtual_methods) |->
       rd.res.val.virtual_methods[k].method_idx_diff]>>

\* C25: in a ClassDataItem returned the index fields are the deltas of the
\* file (the static fields, of one byte each here, follow the four sizes),
\* and no element after the first of a list has a delta of 0, so that the
\* running sum of the deltas of a list is strictly increasing.
C25_IncreasingIndexes ==
  C25_Returned =>
    /\ \A k \in 1..Len(C25_Deltas[1]) :
         C25_Deltas[1][k] = W32(0, buf[rd.at + 4 + 2 * k - 1])
    /\ \A l \in 1..4 : \A k \in 2..Len(C25_Deltas[l]) :
         C25_Deltas[l][k] # W32(0, 0)

---------------------------------------------------------------------------
(* Parser::align (SpecAlign).                                              *)

\* The cursor is d bytes behind the one the call started with
C26_MovedBy(d) ==
  /\ ~W32Add(rd.at, W32OfInt(d)).ovf
  /\ W32Add(rd.at, W32OfInt(d)).val = pos

\* C26: align(n) with n > 0 returns with the cursor at the smallest multiple
\* of n that is not below the cursor p of the call: a multiple of n, between
\* 0 and n - 1 bytes behind p, and p itself when p is a multiple of n.
C26_SmallestMultiple ==
  (rd.pc = "called" /\ rd.fn = "align") =>
    /\ rd.res.st = "ok"
    /\ W32Mod(pos, rd.alignment) = 0
    /\ \E d \in 0..(rd.alignment - 1) : C26_MovedBy(d)
    /\ W32Mod(rd.at, rd.alignment) = 0 => pos = rd.at

---------------------------------------------------------------------------
(* The map of a file (SpecDex).                                            *)

\* map_off of the header, the size of the map list there and the type
\* codes of its items, as the bytes of the file have them
C27_MapOff == buf[53] + 256 * buf[54]

C27_MapSize == buf[C27_MapOff + 1]

C27_MapEnd == (C27_MapOff + 4) + 12 * C27_MapSize

C27_Codes ==
  {buf[C27_MapOff + 12 * i - 7] + 256 * buf[C27_MapOff + 12 * i - 6] :
     i \in 1..C27_MapSize}

\* The 18 type codes that MapList::map asks for with `?`
C27_Mandatory ==
  {0, 1, 2, 3, 4, 5, 6, 4096, 4097, 4098, 4099, 8192, 8193, 8194, 8195, 8196,
   8197, 8198}

\* DexFile::parse was called on a file whose header and map list are whole
\* and whose map items all have a type code
C27_MapRead ==
  /\ rd.pc = "called"
  /\ rd.fn = "DexFile::parse"
  /\ Len(buf) >= HeaderSize
  /\ Len(buf) >= C27_MapOff + 4
  /\ Len(buf) >= C27_MapEnd
  /\ C27_Codes \subseteq C27_Mandatory \cup {7, 8, 61440}

---------------------------------------------------------------------------
(* The formats of the opcodes and the arms of the decoder.                 *)

\* The formats named by the arms of the match in Instruction::parse
C28_Arms ==
  {"Format10x", "Format12x", "Format11n", "Format11x", "Format10t", "Format20t",
   "Format20bc", "Format22x", "Format21t", "Format21s", "Format21ih",
   "Format21lh", "Format21c", "Format23x", "Format22b", "Format22t",
   "Format22s", "Format22c", "Format22cs", "Format30t", "Format32x",
   "Format31i", "Format31t", "Format31c", "Format35c", "Format35ms",
   "Format35mi", "Format3rc", "Format3rms", "Format3rmi", "Format45cc",
   "Format4rcc", "Format51l", "PackedSwitchPayload", "SparseSwitchPayload",
   "ArrayPayload"}

\* C28: no opcode of Opcode::all() has the format UnresolvedOdexInstruction,
\* every opcode that VALUE_TO_OPCODE returns has a format with an arm, and
\* no call of Instruction::parse ends with the error of an unknown format.
C28_NoUnknownFormat ==
  /\ \A i \in 1..Len(AllOpcodes) : AllOpcodes[i].format # "UnresolvedOdexInstruction"
  /\ \A v \in DOMAIN VALUE_TO_OPCODE : VALUE_TO_OPCODE[v].format \in C28_Arms
  /\ \A i \in 1..Len(ci.last) :
       ci.last[i].res.st # "ok" => ci.last[i].res.val # "unknown format"

\* Instruction::parse has found const-wide in the map and returned it
C28_ConstWideRead ==
  /\ ci.last # <<>>
  /\ ci.last[1].res.st = "ok"
  /\ ci.last[1].res.val.op.format = "Format51l"
  /\ ci.last[1].res.val.variant = "Instruction51l"

---------------------------------------------------------------------------
(* The end of the instruction loop (SpecRun).                              *)

\* One more instruction was returned to the loop of CodeItem::parse
C29_Iteration ==
  /\ ci.pc = "insns"
  /\ ci'.pc = "insns"
  /\ Len(ci'.insns) = Len(ci.insns) + 1

\* C29: every call of Instruction::parse that returns an instruction to the
\* loop of CodeItem::parse leaves the cursor at least 2 bytes behind the one
\* it started with, every other call ends the parse, and the parse of a
\* CodeItem comes to its end: it returns the CodeItem, returns an error or
\* panics.
C29_LoopTerminates ==
  /\ [][/\ C29_Iteration => pos' >= pos + 2
        /\ (ci.pc = "insns" /\ ~C29_Iteration) =>
              ci'.pc \in {"done", "failed", "panicked"}]_vars
  /\ <>(ci.pc \in {"done", "failed", "panicked"})

\* The loop has ended after six instructions and the CodeItem is returned
C29_SixIterations ==
  /\ ci.pc = "done"
  /\ Len(ci.insns) = 6

---------------------------------------------------------------------------
(* The cursor after a failure at another offset (SpecOff).                 *)

\* C30: when with_offset, parse_with_offset or parse_list_with_offset
\* returns an error, the cursor is where it was before the call.
C30_RestoredOnError ==
  \A i \in 1..Len(wo.last) :
    (/\ wo.last[i].fn \in {"with_offset", "parse_with_offset", "parse_list_with_offset"}
     /\ wo.last[i].res.st = "err")
      => pos = wo.last[i].at

=============================================================================
